---- MODULE Spec2Model ----
(***************************************************************************)
(* A model of the Nexus forest data pipeline: the SQLite database written  *)
(* by QueryExecutor, DatabaseExporter and SchemaManager, and the pipeline  *)
(* run of NexusPipeline with the checkpoints of PipelineManager.           *)
(*                                                                         *)
(* SpecDb   one call of a database operation from any database state      *)
(* SpecPipe successive pipeline runs against one database path             *)
(***************************************************************************)
EXTENDS Integers, Sequences, FiniteSets, TLC

(***************************************************************************)
(* Bounds                                                                  *)
(***************************************************************************)
\* primary-key values a table row may carry
MaxKey == 2
\* rows of a data frame handed to export_dataframe
MaxRows == 2
\* operations of a list handed to execute_transaction
MaxOps == 2

(***************************************************************************)
(* The database: schema objects and the rows of the fact tables            *)
(***************************************************************************)
FactTables == <<"fact_tree_cover_loss", "fact_primary_forest", "fact_carbon">>

AllSchemas ==
  <<"fact_tree_cover_loss", "fact_primary_forest", "fact_carbon",
    "dim_location", "dim_time">>

IndexesOf(t) ==
  CASE t = "fact_tree_cover_loss" ->
         <<"idx_tcl_country_year", "idx_tcl_threshold", "idx_tcl_year">>
    [] t = "fact_primary_forest" ->
         <<"idx_pf_country_year", "idx_pf_tropical">>
    [] t = "fact_carbon" ->
         <<"idx_carbon_country_year", "idx_carbon_threshold", "idx_carbon_status">>
    [] OTHER -> << >>

ViewNames == <<"v_primary_forest_percentage", "v_carbon_intensity", "v_annual_summary">>

Range(s) == {s[i] : i \in 1..Len(s)}

Tables == Range(FactTables)

Keys == 1..MaxKey

\* the non-key payload of a row
Vals == {"a", "b"}

\* a row is its primary key and its payload
Row == [key : Keys, val : Vals]

KeysOf(rs) == {r.key : r \in rs}

\* the contents a table with a primary key can have
TableStates == {rs \in SUBSET Row : \A r1, r2 \in rs : r1.key = r2.key => r1 = r2}

VARIABLES
  schema,   \* names of the tables, indexes and views persisted in the database file
  rows,     \* rows[t]: the committed rows of fact table t
  pre,      \* the database as it was when the current call began
  call,     \* the operation called and its arguments
  pc,       \* position of the call: "idle", a step inside it, or "done"
  ret,      \* how the call ended: [kind |-> "ok" | "raised", ...]
  clock,    \* the wall clock, in seconds
  dbFile,   \* the database file: [exists, mtime]
  backups,  \* the files of the backups directory: name, mtime, order of creation
  created,  \* the number of backup files written so far
  pruned,   \* the order of creation of the backup files removed so far
  fullBackup, \* whether the .backup copy written by a full rollback exists
  nruns,    \* the number of pipeline runs started
  run,      \* the arguments of the current run and the frames it loaded
  rpc,      \* position of the run
  step,     \* index in StepOrder of the current step
  started,  \* the steps of the current run whose transaction was entered
  session,  \* PipelineManager.current_session: status and checkpoints
  sessionFile, \* the session's JSON file
  stats,    \* NexusPipeline.stats: the error key
  exc,      \* the exception in flight ("" when none)
  rollback, \* what the rollback of the current run did ("none" before it)
  outcome,  \* what the run gave its caller
  runPre,   \* the database as it was when the current run began
  runtime,  \* the runtime metadata of metadata_manager
  tool,     \* the tool invocation the server is handling: name and arguments
  executed, \* the queries the invocation gave execute_query, in order
  response, \* the text blocks call_tool returned
  climate,  \* how the call of the enrichment endpoint ended
  connections, \* the connections execute_query opened that are still open
  conditions, \* the condition map given to build_where_clause, in map order
  built,    \* what build_where_clause gave for it
  instance, \* MetadataManager._instance: 0 for None, else the object
  attrs,    \* attrs[o]: the attributes of object o of class MetadataManager
  thr,      \* thr[t]: where thread t is in MetadataManager(), and its self
  yielded,  \* what the calls of MetadataManager() that returned gave
  updating, \* a call of update_runtime_stats: the metadata before and after
  etl,      \* the frames of a run at clean, transform and export, and its stage
  applied,  \* a transformer or cleaner applied to a table: argument and result
  viewDefs, \* viewDefs[v]: whose definition of view v the database stores
  managers  \* the managers that created their views so far, in order

callvars == <<pre, call, pc, ret>>

dbvars == <<schema, rows>>

filevars == <<clock, dbFile, backups, created, pruned, fullBackup>>

runvars == <<nruns, run, rpc, step, started, session, sessionFile, stats, exc,
             rollback, outcome, runPre, runtime>>

mcpvars == <<tool, executed, response, climate, connections>>

wherevars == <<conditions, built>>

metavars == <<instance, attrs, thr, yielded>>

statvars == <<updating>>

etlvars == <<etl, applied>>

viewvars == <<viewDefs, managers>>

extvars == <<mcpvars, wherevars, metavars, statvars, etlvars, viewvars>>

\* what the construction of the metadata manager leaves alone
othersOfMeta ==
  <<dbvars, callvars, filevars, runvars, mcpvars, wherevars, statvars, etlvars, viewvars>>

\* what a call of update_runtime_stats on its own leaves alone
othersOfStats ==
  <<dbvars, callvars, filevars, runvars, mcpvars, wherevars, metavars, etlvars, viewvars>>

\* what the steps on the frames of a run leave alone
othersOfClean ==
  <<dbvars, callvars, filevars, runvars, mcpvars, wherevars, metavars, statvars,
    viewvars>>

vars == <<dbvars, callvars, filevars, runvars, extvars>>

(***************************************************************************)
(* QueryExecutor.execute_transaction                                       *)
(***************************************************************************)
OpKinds == {"insert", "delete", "malformed"}

AnyTable == FactTables[1]

AnyVal == CHOOSE v \in Vals : TRUE

\* one (sql, params) pair: INSERT of a row, DELETE by key, or SQL that does not parse
Operation ==
  [kind : {"insert"}, table : Tables, row : Row]
    \cup [kind : {"delete"}, table : Tables, row : [key : Keys, val : {AnyVal}]]
    \cup [kind : {"malformed"}, table : {AnyTable}, row : [key : {1}, val : {AnyVal}]]

SeqsUpTo(S, n) == UNION {[1..k -> S] : k \in 0..n}

\* cursor.execute of one operation raises: no such table, a primary key
\* that is already there, or a syntax error
Raises(sch, work, op) ==
  \/ op.kind = "malformed"
  \/ op.table \notin sch
  \/ op.kind = "insert" /\ op.row.key \in KeysOf(work[op.table])

\* the uncommitted rows after cursor.execute of one operation that does not raise
Execute(work, op) ==
  IF op.kind = "insert"
  THEN [work EXCEPT ![op.table] = @ \cup {op.row}]
  ELSE [work EXCEPT ![op.table] = {r \in @ : r.key # op.row.key}]

\* the for loop over the operations: the uncommitted rows and the index of
\* the operation that raised (0 when none did)
RECURSIVE RunOperations(_, _, _, _)
RunOperations(sch, work, ops, i) ==
  IF i > Len(ops) THEN [work |-> work, failed |-> 0]
  ELSE IF Raises(sch, work, ops[i]) THEN [work |-> work, failed |-> i]
  ELSE RunOperations(sch, Execute(work, ops[i]), ops, i + 1)

\* conn.rollback() mistaken for a commit
RollbackKeeps(committed, work) == work

\* conn.rollback(): the uncommitted rows are discarded
Rollback(committed, work) == committed

ExecuteTransaction(ops) ==
  /\ pc = "idle"
  /\ LET r == RunOperations(schema, rows, ops, 1) IN
       /\ rows' = IF r.failed = 0 THEN r.work ELSE Rollback(rows, r.work)
       /\ ret' = IF r.failed = 0
                 THEN [kind |-> "ok", value |-> TRUE, failed |-> 0]
                 ELSE [kind |-> "raised", value |-> FALSE, failed |-> r.failed]
  /\ call' = [op |-> "execute_transaction", ops |-> ops]
  /\ pre' = [schema |-> schema, rows |-> rows]
  /\ pc' = "done"
  /\ UNCHANGED schema

(***************************************************************************)
(* DatabaseExporter.export_dataframe                                       *)
(***************************************************************************)
\* a data frame: its rows in order
Frames == SeqsUpTo(Row, MaxRows)

\* the places where a statement of a database call can raise for a reason
\* that is not in its arguments (a locked database, an I/O error, a
\* constraint on a column that is not modelled); i is the row for "insert"
\* and the statement for "create"
NoFault == [at |-> "none", i |-> 0]

ExportFaults(df) ==
  {NoFault} \cup [at : {"connect", "delete", "commit", "verify"}, i : {0}]
    \cup [at : {"insert"}, i : 1..Len(df)]

\* DELETE FROM table left out
DeleteFromKeeps(rs) == rs

\* DELETE FROM table
DeleteFrom(rs) == {}

\* cursor.executemany over the batches: the rows go in one by one, in order,
\* until one raises (its primary key is already there, or the fault is on it)
RECURSIVE InsertRows(_, _, _, _)
InsertRows(work, df, i, fault) ==
  IF i > Len(df) THEN [work |-> work, failed |-> 0]
  ELSE IF (fault.at = "insert" /\ fault.i = i) \/ df[i].key \in KeysOf(work)
       THEN [work |-> work, failed |-> i]
  ELSE InsertRows(work \cup {df[i]}, df, i + 1, fault)

\* export_dataframe on one table: the rows the table holds afterwards, how
\* the call ended and, when it returned, the verified row count
ExportDataframeResult(sch, before, t, df, mode, fault) ==
  LET missing  == t \notin sch
      deleted  == IF mode = "replace" THEN DeleteFrom(before) ELSE before
      ins      == InsertRows(deleted, df, 1, fault)
      raisedAt ==
        IF fault.at = "connect" THEN "connect"
        ELSE IF mode = "replace" /\ (missing \/ fault.at = "delete") THEN "delete"
        ELSE IF Len(df) > 0 /\ missing THEN "insert"
        ELSE IF ins.failed # 0 THEN "insert"
        ELSE IF fault.at = "commit" THEN "commit"
        ELSE IF missing \/ fault.at = "verify" THEN "verify"
        ELSE "none"
  IN  CASE raisedAt = "none" ->
             [rows |-> ins.work, kind |-> "ok", at |-> "none",
              value |-> Cardinality(ins.work)]
        [] raisedAt = "verify" ->
             \* connection.commit() came first: connection.rollback() finds
             \* no open transaction
             [rows |-> ins.work, kind |-> "raised", at |-> "verify", value |-> 0]
        [] raisedAt = "connect" ->
             [rows |-> before, kind |-> "raised", at |-> "connect", value |-> 0]
        [] OTHER ->
             [rows |-> Rollback(before, ins.work), kind |-> "raised",
              at |-> raisedAt, value |-> 0]

ExportDataframe(t, df, mode, fault) ==
  /\ pc = "idle"
  /\ LET r == ExportDataframeResult(schema, rows[t], t, df, mode, fault) IN
       /\ rows' = [rows EXCEPT ![t] = r.rows]
       /\ ret' = [kind |-> r.kind, at |-> r.at, value |-> r.value]
  /\ call' = [op |-> "export_dataframe", table |-> t, df |-> df, mode |-> mode]
  /\ pre' = [schema |-> schema, rows |-> rows]
  /\ pc' = "done"
  /\ UNCHANGED schema

(***************************************************************************)
(* SchemaManager.create_all_tables, drop_all_tables                        *)
(***************************************************************************)
FullSchema ==
  Range(AllSchemas) \cup UNION {Range(IndexesOf(t)) : t \in Range(AllSchemas)}
    \cup Range(ViewNames)

RECURSIVE Concat(_, _)
Concat(f, i) == IF i > Len(AllSchemas) THEN << >>
                ELSE <<AllSchemas[i]>> \o IndexesOf(AllSchemas[i]) \o Concat(f, i + 1)

\* the objects create_all_tables creates, in the order of its CREATE ... IF
\* NOT EXISTS statements: each table followed by its indexes, then the views
CreateStatements == Concat(AllSchemas, 1) \o ViewNames

CreateFaults ==
  {NoFault} \cup [at : {"begin", "verify", "commit", "optimize"}, i : {0}]
    \cup [at : {"create"}, i : 1..Len(CreateStatements)]

\* the uncommitted schema after the first n CREATE statements
Created(sch, n) == sch \cup {CreateStatements[i] : i \in 1..n}

\* create_all_tables: the schema persisted afterwards and how the call ended
CreateAllTablesResult(sch, fault) ==
  LET all == Created(sch, Len(CreateStatements)) IN
  CASE fault.at = "none" -> [schema |-> all, kind |-> "ok", at |-> "none"]
    [] fault.at = "optimize" ->
         \* _optimize_database runs after connection.commit()
         [schema |-> all, kind |-> "raised", at |-> "optimize"]
    [] fault.at = "create" ->
         [schema |-> Rollback(sch, Created(sch, fault.i - 1)), kind |-> "raised",
          at |-> "create"]
    [] fault.at = "begin" ->
         [schema |-> Rollback(sch, sch), kind |-> "raised", at |-> "begin"]
    [] OTHER ->
         [schema |-> Rollback(sch, all), kind |-> "raised", at |-> fault.at]

CreateAllTables(fault) ==
  /\ pc = "idle"
  /\ LET r == CreateAllTablesResult(schema, fault) IN
       /\ schema' = r.schema
       /\ ret' = [kind |-> r.kind, at |-> r.at, value |-> 0]
  /\ call' = [op |-> "create_all_tables"]
  /\ pre' = [schema |-> schema, rows |-> rows]
  /\ pc' = "done"
  /\ UNCHANGED rows

NoRows == [t \in Tables |-> {}]

\* DROP VIEW / DROP TABLE IF EXISTS of every view and table, committed
DropAllTables ==
  /\ pc = "idle"
  /\ schema' = schema \ FullSchema
  /\ rows' = NoRows
  /\ ret' = [kind |-> "ok", at |-> "none", value |-> 0]
  /\ call' = [op |-> "drop_all_tables"]
  /\ pre' = [schema |-> schema, rows |-> rows]
  /\ pc' = "done"

\* initialize_database: drop_all_tables when drop_existing (committed on its
\* own), then create_all_tables
InitializeDatabaseResult(sch, rws, drop_existing, fault) ==
  LET dropped == IF drop_existing THEN sch \ FullSchema ELSE sch
      r == CreateAllTablesResult(dropped, fault)
  IN  [schema |-> r.schema, rows |-> IF drop_existing THEN NoRows ELSE rws,
       kind |-> r.kind, at |-> r.at]

InitializeDatabase(drop_existing, fault) ==
  /\ pc = "idle"
  /\ LET r == InitializeDatabaseResult(schema, rows, drop_existing, fault) IN
       /\ schema' = r.schema
       /\ rows' = r.rows
       /\ ret' = [kind |-> r.kind, at |-> r.at, value |-> 0]
  /\ call' = [op |-> "initialize_database", drop_existing |-> drop_existing]
  /\ pre' = [schema |-> schema, rows |-> rows]
  /\ pc' = "done"

(***************************************************************************)
(* DatabaseExporter.export_all_tables                                      *)
(***************************************************************************)
HasIndexes(sch) == \E t \in Range(AllSchemas) : Range(IndexesOf(t)) \cap sch # {}

\* the part of export_all_tables a fault falls in: the export of fact table
\* 1, 2 or 3, the index check, the optimization, or none
AllPhases == 0..(Len(FactTables) + 2)

VerifyPhase == Len(FactTables) + 1

OptimizePhase == Len(FactTables) + 2

AllFaults(sch, dfs, ph) ==
  IF ph = 0 THEN {NoFault}
  ELSE IF ph <= Len(FactTables) THEN ExportFaults(dfs[ph]) \ {NoFault}
  ELSE IF ph = VerifyPhase /\ ~HasIndexes(sch) THEN CreateFaults \ {NoFault}
  ELSE {[at |-> "connect", i |-> 0]}

\* the three export_dataframe calls, in order, each committing on its own;
\* the first that raises ends the call
RECURSIVE ExportFacts(_, _, _, _, _, _, _)
ExportFacts(sch, rws, dfs, i, ph, fault, counts) ==
  IF i > Len(FactTables)
  THEN [rows |-> rws, kind |-> "ok", at |-> "none", table |-> 0, value |-> counts]
  ELSE LET t == FactTables[i]
           r == ExportDataframeResult(sch, rws[t], t, dfs[i], "replace",
                                      IF ph = i THEN fault ELSE NoFault)
           after == [rws EXCEPT ![t] = r.rows]
       IN IF r.kind = "raised"
          THEN [rows |-> after, kind |-> "raised", at |-> r.at, table |-> i,
                value |-> counts]
          ELSE ExportFacts(sch, after, dfs, i + 1, ph, fault, Append(counts, r.value))

\* export_all_tables: the fact tables, then the index check (create_all_tables
\* again when the database has no index), then _post_export_optimization
ExportAllTablesResult(sch, rws, dfs, ph, fault) ==
  LET facts == ExportFacts(sch, rws, dfs, 1, ph, fault, << >>)
      check == IF HasIndexes(sch)
               THEN [schema |-> sch,
                     kind |-> IF ph = VerifyPhase THEN "raised" ELSE "ok",
                     at |-> "verify"]
               ELSE CreateAllTablesResult(sch, IF ph = VerifyPhase THEN fault
                                               ELSE NoFault)
  IN  IF facts.kind = "raised"
      THEN [schema |-> sch, rows |-> facts.rows, kind |-> "raised",
            at |-> facts.at, table |-> facts.table, value |-> facts.value]
      ELSE IF check.kind = "raised"
      THEN [schema |-> check.schema, rows |-> facts.rows, kind |-> "raised",
            at |-> check.at, table |-> VerifyPhase, value |-> facts.value]
      ELSE IF ph = OptimizePhase
      THEN [schema |-> check.schema, rows |-> facts.rows, kind |-> "raised",
            at |-> "optimize", table |-> OptimizePhase, value |-> facts.value]
      ELSE [schema |-> check.schema, rows |-> facts.rows, kind |-> "ok",
            at |-> "none", table |-> 0, value |-> facts.value]

ExportAllTables(tree_cover_df, primary_forest_df, carbon_df, ph, fault) ==
  /\ pc = "idle"
  /\ LET dfs == <<tree_cover_df, primary_forest_df, carbon_df>>
         r == ExportAllTablesResult(schema, rows, dfs, ph, fault) IN
       /\ schema' = r.schema
       /\ rows' = r.rows
       /\ ret' = [kind |-> r.kind, at |-> r.at, value |-> r.value, table |-> r.table]
       /\ call' = [op |-> "export_all_tables", dfs |-> dfs]
  /\ pre' = [schema |-> schema, rows |-> rows]
  /\ pc' = "done"

(***************************************************************************)
(* SpecDb                                                                  *)
(***************************************************************************)
NoCall == [op |-> "none"]

\* a database written before the indexes were kept across exports, the case
\* the index check of export_all_tables is there for
SchemaWithoutIndexes == Range(AllSchemas) \cup Range(ViewNames)

NoSession == [status |-> "none", checkpoints |-> << >>]

NoRun == [validate_only |-> FALSE, drop_existing |-> FALSE, dfs |-> << >>]

QualityKeys == {"completeness", "accuracy", "consistency"}

\* _create_default_runtime_metadata; a time of 0 stands for None
DefaultRuntime(now) ==
  [row_counts |-> [t \in Tables |-> 0],
   validation_status |-> [t \in Tables |-> "UNKNOWN"],
   data_quality |-> [q \in QualityKeys |-> 0],
   pipeline_version |-> "1.0.0",
   last_pipeline_run |-> 0,
   last_update |-> now]

\* the runtime metadata in memory and in runtime.json, as the first load
\* without a file leaves them
NoRuntime == [memory |-> DefaultRuntime(0), file |-> DefaultRuntime(0)]

NoMap == [k \in {} |-> 0]

\* the update map complete_session gives
SessionUpdate ==
  [given |-> {"pipeline_run", "version"}, version |-> "1.0.0",
   row_counts |-> NoMap, validation_status |-> NoMap, data_quality |-> NoMap]

\* no call of a database operation is under way
CallIdle ==
  /\ pre = [schema |-> schema, rows |-> rows]
  /\ call = NoCall
  /\ pc = "idle"
  /\ ret = [kind |-> "none"]

\* no pipeline run has begun
RunIdle ==
  /\ nruns = 0
  /\ run = NoRun
  /\ rpc = "idle"
  /\ step = 0
  /\ started = << >>
  /\ session = NoSession
  /\ sessionFile = NoSession
  /\ stats = [error |-> ""]
  /\ exc = ""
  /\ rollback = "none"
  /\ outcome = "none"
  /\ runPre = [schema |-> schema, rows |-> rows]
  /\ runtime = NoRuntime

\* the database file is there exactly when it has a schema; no backup yet
FilesIdle ==
  /\ clock = 0
  /\ dbFile = [exists |-> schema # {}, mtime |-> 0]
  /\ backups = {}
  /\ created = 0
  /\ pruned = {}
  /\ fullBackup = FALSE

NoTool == [name |-> "none"]

NoResponse ==
  [kind |-> "none", handler |-> "", text |-> "", results |-> {}, parts |-> << >>]

\* the server waits for an invocation
ServerIdle ==
  /\ tool = NoTool
  /\ executed = << >>
  /\ response = NoResponse
  /\ climate = "not_called"
  /\ connections = 0

NotBuilt == [state |-> "none"]

\* build_where_clause has not been called
WhereIdle ==
  /\ conditions = << >>
  /\ built = NotBuilt

\* the metadata module is not imported yet
MetaIdle ==
  /\ instance = 0
  /\ attrs = << >>
  /\ thr = [t \in {"import", "t1", "t2"} |-> [pc |-> "idle", self |-> 0, n |-> 0]]
  /\ yielded = {}

\* update_runtime_stats is not being looked at on its own
StatsIdle ==
  updating = [before |-> DefaultRuntime(0), update |-> SessionUpdate, now |-> 1,
              after |-> DefaultRuntime(0), calls |-> 0]

\* no frame is loaded
NoFrames == [stage |-> "none", tree |-> << >>, primary |-> << >>, carbon |-> << >>]

NotApplied == [fn |-> "none", arg |-> << >>, done |-> FALSE, result |-> << >>, again |-> << >>]

EtlIdle == etl = NoFrames /\ applied = NotApplied

\* a view the database does not have
NoView == << >>

\* no manager has created a view
ViewsIdle ==
  /\ viewDefs = [i \in DOMAIN ViewNames |-> NoView]
  /\ managers = << >>

ExtIdle == ServerIdle /\ WhereIdle /\ MetaIdle /\ StatsIdle /\ EtlIdle /\ ViewsIdle

InitDb ==
  /\ schema \in {{}, FullSchema, SchemaWithoutIndexes}
  /\ \E base \in TableStates :
       rows = [t \in Tables |-> IF schema = FullSchema THEN base ELSE {}]
  /\ CallIdle
  /\ FilesIdle
  /\ RunIdle
  /\ ExtIdle

NextDb ==
  \/ /\ pc = "idle"
     /\ \E ops \in SeqsUpTo(Operation, MaxOps) : ExecuteTransaction(ops)
     /\ UNCHANGED <<filevars, runvars, extvars>>
  \/ /\ pc = "idle"
     /\ \E t \in Tables, df \in Frames, mode \in {"replace", "append"} :
          \E fault \in ExportFaults(df) : ExportDataframe(t, df, mode, fault)
     /\ UNCHANGED <<filevars, runvars, extvars>>
  \/ /\ \E fault \in CreateFaults : CreateAllTables(fault)
     /\ UNCHANGED <<filevars, runvars, extvars>>
  \/ /\ DropAllTables
     /\ UNCHANGED <<filevars, runvars, extvars>>
  \/ /\ \E d \in BOOLEAN, fault \in CreateFaults : InitializeDatabase(d, fault)
     /\ UNCHANGED <<filevars, runvars, extvars>>
  \/ /\ pc = "idle"
     /\ \E df \in Frames, ph \in AllPhases :
          \E fault \in AllFaults(schema, <<df, df, df>>, ph) :
            ExportAllTables(df, df, df, ph, fault)
     /\ UNCHANGED <<filevars, runvars, extvars>>

SpecDb == InitDb /\ [][NextDb]_vars

(***************************************************************************)
(* NexusPipeline.run: the backup of the database file                      *)
(***************************************************************************)
\* pipeline runs of SpecPipe
MaxRuns == 2
\* pipeline runs of SpecBackup
MaxBackupRuns == 6

\* self._cleanup_old_backups(backup_dir, keep=5)
Keep == 5

\* shutil.copy2(db_path, backup_path): the name carries the second of the
\* copy, a file of that name is overwritten, and copy2 gives the copy the
\* modification time of the database file
CopyToBackup(dir, now, src, n) ==
  {f \in dir : f.name # now} \cup {[name |-> now, mtime |-> src.mtime, born |-> n]}

\* the files backups[:-keep] can be: sorted() orders by st_mtime only, and
\* files of equal mtime stay in the order glob() lists them, which is any
OldBackups(dir, keep) ==
  IF Cardinality(dir) <= keep THEN {{}}
  ELSE {D \in SUBSET dir :
          /\ Cardinality(D) = Cardinality(dir) - keep
          /\ \A d \in D : \A k \in dir \ D : d.mtime <= k.mtime}

\* the prologue of run: the backup when the database file is there and
\* drop_existing is not set, then _cleanup_old_backups
BackupDatabase(drop_existing) ==
  IF dbFile.exists /\ ~drop_existing
  THEN \E D \in OldBackups(CopyToBackup(backups, clock', dbFile, created + 1), Keep) :
         /\ backups' = CopyToBackup(backups, clock', dbFile, created + 1) \ D
         /\ pruned' = pruned \cup {d.born : d \in D}
         /\ created' = created + 1
  ELSE UNCHANGED <<backups, pruned, created>>

\* one whole run as the backups directory sees it: d seconds after the
\* run before it, the prologue, and a database file that the export step
\* writes (writes) or that no step reaches
Run(d, drop_existing, writes) ==
  /\ nruns < MaxBackupRuns
  /\ nruns' = nruns + 1
  /\ clock' = clock + d
  /\ BackupDatabase(drop_existing)
  /\ run' = [NoRun EXCEPT !.drop_existing = drop_existing]
  /\ dbFile' = IF writes THEN [exists |-> TRUE, mtime |-> clock'] ELSE dbFile
  /\ outcome' = IF writes THEN "stats" ELSE "raised"
  /\ UNCHANGED <<fullBackup, rpc, step, started, session, sessionFile, stats, exc,
                 rollback, runPre, runtime>>

InitBackup ==
  /\ schema \in {{}, FullSchema}
  /\ rows = NoRows
  /\ CallIdle
  /\ FilesIdle
  /\ RunIdle
  /\ ExtIdle

NextBackup ==
  \/ /\ \E d \in 0..1, drop_existing \in BOOLEAN, writes \in BOOLEAN :
          Run(d, drop_existing, writes)
     /\ UNCHANGED <<dbvars, callvars, extvars>>

SpecBackup == InitBackup /\ [][NextBackup]_vars

(***************************************************************************)
(* PipelineManager                                                         *)
(***************************************************************************)
StepOrder ==
  <<"load_data", "validate_data", "clean_data", "transform_data", "export_data",
    "create_dimensions", "validate_export">>

\* start_session
StartSession == [status |-> "running", checkpoints |-> << >>]

\* a checkpoint dropped: the session as it was
CheckpointDropped(sess, checkpoint) == sess

\* _save_checkpoint: nothing without a session; else the checkpoint is
\* appended and the whole session written to its file
SaveCheckpoint(sess, checkpoint) ==
  IF sess.status = "none" THEN sess
  ELSE [sess EXCEPT !.checkpoints = Append(@, checkpoint)]

SuccessfulCheckpoints(sess) ==
  SelectSeq(sess.checkpoints, LAMBDA cp : cp.status = "success")

StepRollbacks == {"load_data", "clean_data", "transform_data", "export_data"}

\* the hook named after the step of the last checkpoint, whatever its status
RollbackOfLastCheckpoint(sess) ==
  IF sess.status = "none" \/ sess.checkpoints = << >> THEN "nothing"
  ELSE LET last == sess.checkpoints[Len(sess.checkpoints)].step
       IN IF last \in StepRollbacks THEN last ELSE "nothing"

\* _rollback_to_last_checkpoint: what it runs
RollbackAction(sess) ==
  IF sess.status = "none" \/ sess.checkpoints = << >> THEN "nothing"
  ELSE IF SuccessfulCheckpoints(sess) = << >> THEN "full"
  ELSE LET last == SuccessfulCheckpoints(sess)[Len(SuccessfulCheckpoints(sess))].step
       IN IF last \in StepRollbacks THEN last ELSE "nothing"

\* complete_session: the session is marked completed, the runtime metadata
\* stamped as a pipeline run, the session file rewritten
CompleteSession(sess) == [sess EXCEPT !.status = "completed"]

\* a map replaced by the one given
Replaced(old, new) == new

\* dict.update: the keys of new overwritten or added, the others kept
Updated(old, new) ==
  [k \in DOMAIN old \cup DOMAIN new |-> IF k \in DOMAIN new THEN new[k] ELSE old[k]]

\* update_runtime_stats, in memory: upd.given holds the keys of the update map
UpdateRuntimeStats(rt, upd, now) ==
  [row_counts |-> IF "row_counts" \in upd.given
                  THEN Updated(rt.row_counts, upd.row_counts) ELSE rt.row_counts,
   validation_status |-> IF "validation_status" \in upd.given
                         THEN Updated(rt.validation_status, upd.validation_status)
                         ELSE rt.validation_status,
   data_quality |-> IF "data_quality" \in upd.given
                    THEN Updated(rt.data_quality, upd.data_quality) ELSE rt.data_quality,
   last_pipeline_run |-> IF "pipeline_run" \in upd.given THEN now
                         ELSE rt.last_pipeline_run,
   pipeline_version |-> IF "pipeline_run" \in upd.given
                        THEN (IF "version" \in upd.given THEN upd.version ELSE "1.0.0")
                        ELSE rt.pipeline_version,
   last_update |-> now]

\* update_runtime_stats with its save_runtime_metadata
UpdateAndSave(rt, upd, now) ==
  [memory |-> UpdateRuntimeStats(rt.memory, upd, now),
   file |-> UpdateRuntimeStats(rt.memory, upd, now)]

\* the update map of step 8 of the run: validate_export gives no
\* "validation" key, so every status is UNKNOWN
PipelineUpdate(counts) ==
  [given |-> {"row_counts", "validation_status", "data_quality", "pipeline_run",
              "version"},
   version |-> "1.0.0",
   row_counts |-> counts,
   validation_status |-> [t \in Tables |-> "UNKNOWN"],
   data_quality |-> [q \in QualityKeys |-> 1]]

(***************************************************************************)
(* NexusPipeline.run, step by step                                         *)
(***************************************************************************)
\* the frames a workbook can give the three transformers: no row, every key
\* with one payload or the other, or a key twice
Workbooks ==
  {<< >>} \cup {[i \in 1..MaxKey |-> [key |-> i, val |-> v]] : v \in Vals}
    \cup {<<[key |-> 1, val |-> AnyVal], [key |-> 1, val |-> AnyVal]>>}

\* run up to the first transaction: the backup, PipelineManager(), start_session
RunBegin(d, validate_only, drop_existing) ==
  /\ rpc \in {"idle", "returned", "raised"}
  /\ nruns < MaxRuns
  /\ nruns' = nruns + 1
  /\ clock' = clock + d
  /\ BackupDatabase(drop_existing)
  /\ run' = [validate_only |-> validate_only, drop_existing |-> drop_existing,
             dfs |-> << >>]
  /\ session' = StartSession
  /\ sessionFile' = IF d = 0 THEN sessionFile ELSE NoSession
  /\ stats' = [error |-> ""]
  /\ started' = << >>
  /\ step' = 1
  /\ rpc' = "enter"
  /\ exc' = ""
  /\ rollback' = "none"
  /\ outcome' = "none"
  /\ runPre' = [schema |-> schema, rows |-> rows]
  /\ UNCHANGED <<dbvars, dbFile, fullBackup, runtime>>

\* with pipeline_mgr.transaction(step): "Starting step"
TransactionEnter ==
  /\ rpc = "enter"
  /\ started' = Append(started, StepOrder[step])
  /\ rpc' = "body"
  /\ UNCHANGED <<dbvars, filevars, nruns, run, step, session, sessionFile, stats, exc,
                 rollback, outcome, runPre, runtime>>

\* the position after the transaction of step k ended with a success checkpoint
AfterSuccess(k) == IF k = Len(StepOrder) THEN "finish" ELSE "enter"

\* the exception swallowed: the run goes on with the next transaction
AfterFailureSwallowed == "enter"

\* the position after the body of a transaction raised: the except clause
\* of transaction has saved the failed checkpoint and the rollback is next
AfterFailure == "failed"

\* the body of step k ended normally: the success checkpoint
StepSucceeds(k) ==
  /\ session' = SaveCheckpoint(session, [step |-> StepOrder[k], status |-> "success",
                                         error |-> ""])
  /\ sessionFile' = session'
  /\ step' = k + 1
  /\ rpc' = AfterSuccess(k)
  /\ UNCHANGED <<stats, exc, rollback, outcome>>

\* the body of step k raised e: the failed checkpoint with the error text
StepRaises(k, e) ==
  /\ session' = SaveCheckpoint(session, [step |-> StepOrder[k], status |-> "failed",
                                         error |-> e])
  /\ sessionFile' = session'
  /\ exc' = e
  /\ rpc' = AfterFailure
  /\ UNCHANGED <<step, stats, rollback, outcome>>

\* the exception a step body raises
ErrorOf(k) == "error in " \o StepOrder[k]

\* a step whose body reads and computes: it ends normally or raises
PlainStep(k, ok) ==
  /\ rpc = "body" /\ step = k
  /\ IF ok THEN StepSucceeds(k) ELSE StepRaises(k, ErrorOf(k))
  /\ UNCHANGED <<dbvars, filevars, nruns, started, runPre>>

LoadData(ok, df) ==
  /\ PlainStep(1, ok)
  /\ run' = IF ok THEN [run EXCEPT !.dfs = <<df, df, df>>] ELSE run
  /\ UNCHANGED runtime

\* the validate_only flag ignored
NeverStopsAfterValidation(validate_only) == FALSE

\* validate_only stops the run inside the validate_data transaction:
\* complete_session, then return validation_results from within the block
StopsAfterValidation(validate_only) == validate_only

ValidateData(ok) ==
  /\ rpc = "body" /\ step = 2
  /\ IF ok /\ StopsAfterValidation(run.validate_only)
     THEN /\ session' = CompleteSession(session)
          /\ sessionFile' = session'
          /\ runtime' = UpdateAndSave(runtime, SessionUpdate, clock)
          /\ rpc' = "leaving"
          /\ UNCHANGED <<step, stats, exc, rollback, outcome>>
     ELSE /\ IF ok THEN StepSucceeds(2) ELSE StepRaises(2, ErrorOf(2))
          /\ UNCHANGED runtime
  /\ UNCHANGED <<dbvars, filevars, nruns, run, started, runPre>>

\* the return statement leaves the validate_data block: the generator of
\* transaction resumes after its yield and saves the success checkpoint,
\* then run returns the validation results
TransactionLeave ==
  /\ rpc = "leaving"
  /\ session' = SaveCheckpoint(session, [step |-> StepOrder[step], status |-> "success",
                                         error |-> ""])
  /\ sessionFile' = session'
  /\ outcome' = "validation_report"
  /\ rpc' = "returned"
  /\ UNCHANGED <<dbvars, filevars, nruns, run, step, started, stats, exc, rollback,
                 runPre, runtime>>

CleanData(ok) == PlainStep(3, ok) /\ UNCHANGED <<run, runtime>>

TransformData(ok) == PlainStep(4, ok) /\ UNCHANGED <<run, runtime>>

\* the body of export_data: initialize_database, then export_all_tables;
\* ph = -1 puts the fault in initialize_database
ExportData(ph, fault) ==
  /\ rpc = "body" /\ step = 5
  /\ LET i == InitializeDatabaseResult(schema, rows, run.drop_existing,
                                       IF ph = -1 THEN fault ELSE NoFault)
         a == ExportAllTablesResult(i.schema, i.rows, run.dfs, ph, fault)
     IN  IF i.kind = "raised"
         THEN /\ schema' = i.schema /\ rows' = i.rows
              /\ StepRaises(5, ErrorOf(5))
              /\ UNCHANGED runtime
         ELSE /\ schema' = a.schema /\ rows' = a.rows
              /\ IF a.kind = "raised" THEN StepRaises(5, ErrorOf(5)) ELSE StepSucceeds(5)
              /\ UNCHANGED runtime
  /\ dbFile' = [exists |-> TRUE, mtime |-> clock]
  /\ UNCHANGED <<clock, backups, created, pruned, fullBackup, nruns, run, started,
                 runPre>>

CreateDimensions(ok) == PlainStep(6, ok) /\ UNCHANGED <<run, runtime>>

ValidateExport(ok) == PlainStep(7, ok) /\ UNCHANGED <<run, runtime>>

\* _rollback_to_last_checkpoint, in the except clause of transaction; the
\* full rollback copies the database file and the copy can raise; the hooks
\* log, and _rollback_export swallows what its ROLLBACK raises
TransactionRollback(copyRaises) ==
  /\ rpc = "failed"
  /\ rollback' = RollbackAction(session)
  /\ IF rollback' = "full" /\ dbFile.exists
     THEN IF copyRaises
          THEN exc' = "error in rollback" /\ UNCHANGED fullBackup
          ELSE fullBackup' = TRUE /\ UNCHANGED exc
     ELSE copyRaises = FALSE /\ UNCHANGED <<exc, fullBackup>>
  /\ rpc' = "propagate"
  /\ UNCHANGED <<dbvars, clock, dbFile, backups, created, pruned, nruns, run, step,
                 started, session, sessionFile, stats, outcome, runPre, runtime>>

\* the except clause of run: the error goes into stats and is raised again
RunExcept ==
  /\ rpc = "propagate"
  /\ stats' = [error |-> exc]
  /\ outcome' = "raised"
  /\ rpc' = "raised"
  /\ UNCHANGED <<dbvars, filevars, nruns, run, step, started, session, sessionFile,
                 exc, rollback, runPre, runtime>>

RowCounts(rws) == [t \in Tables |-> Cardinality(rws[t])]

\* after the last step: the metadata update, complete_session, return self.stats
RunFinish ==
  /\ rpc = "finish"
  /\ runtime' = UpdateAndSave(UpdateAndSave(runtime, PipelineUpdate(RowCounts(rows)), clock),
                              SessionUpdate, clock)
  /\ session' = CompleteSession(session)
  /\ sessionFile' = session'
  /\ outcome' = "stats"
  /\ rpc' = "returned"
  /\ UNCHANGED <<dbvars, filevars, nruns, run, step, started, stats, exc, rollback,
                 runPre>>

InitPipe ==
  /\ schema \in {{}, FullSchema}
  /\ \E df \in Workbooks :
       rows = [t \in Tables |-> IF schema = {} THEN {} ELSE Range(df)]
  /\ CallIdle
  /\ FilesIdle
  /\ RunIdle
  /\ ExtIdle

NextPipe ==
  \/ /\ \E d \in {1}, validate_only \in BOOLEAN, drop_existing \in BOOLEAN :
          RunBegin(d, validate_only, drop_existing)
     /\ UNCHANGED <<callvars, extvars>>
  \/ TransactionEnter /\ UNCHANGED <<callvars, extvars>>
  \/ /\ \E ok \in BOOLEAN, df \in Workbooks : LoadData(ok, df)
     /\ UNCHANGED <<callvars, extvars>>
  \/ /\ \E ok \in BOOLEAN : ValidateData(ok)
     /\ UNCHANGED <<callvars, extvars>>
  \/ TransactionLeave /\ UNCHANGED <<callvars, extvars>>
  \/ /\ \E ok \in BOOLEAN : CleanData(ok)
     /\ UNCHANGED <<callvars, extvars>>
  \/ /\ \E ok \in BOOLEAN : TransformData(ok)
     /\ UNCHANGED <<callvars, extvars>>
  \/ /\ rpc = "body" /\ step = 5
     /\ \E ph \in {-1} \cup AllPhases :
          \E fault \in IF ph = -1 THEN CreateFaults \ {NoFault}
                       ELSE AllFaults(FullSchema, run.dfs, ph) :
            ExportData(ph, fault)
     /\ UNCHANGED <<callvars, extvars>>
  \/ /\ \E ok \in BOOLEAN : CreateDimensions(ok)
     /\ UNCHANGED <<callvars, extvars>>
  \/ /\ \E ok \in BOOLEAN : ValidateExport(ok)
     /\ UNCHANGED <<callvars, extvars>>
  \/ /\ \E copyRaises \in BOOLEAN : TransactionRollback(copyRaises)
     /\ UNCHANGED <<callvars, extvars>>
  \/ RunExcept /\ UNCHANGED <<callvars, extvars>>
  \/ RunFinish /\ UNCHANGED <<callvars, extvars>>

SpecPipe == InitPipe /\ [][NextPipe]_vars

(***************************************************************************)
(* mcp_stdio_server: tools, arguments and queries                          *)
(***************************************************************************)
\* the names list_tools advertises, in order
ToolNames ==
  <<"query_tree_cover_loss", "query_primary_forest", "query_carbon_data",
    "analyze_trend", "compare_countries", "rank_countries",
    "calculate_primary_share", "calculate_carbon_intensity", "compare_thresholds",
    "aggregate_global", "list_tropical_countries", "get_database_summary">>

\* the names the if/elif chain of call_tool compares with, in order
RoutedNames ==
  <<"query_tree_cover_loss", "query_primary_forest", "query_carbon_data",
    "analyze_trend", "compare_countries", "rank_countries",
    "calculate_primary_share", "calculate_carbon_intensity", "compare_thresholds",
    "aggregate_global", "list_tropical_countries", "get_database_summary">>

\* a chain that lost its last branch
RouteOfWithoutLast(name) ==
  IF \E i \in 1..(Len(RoutedNames) - 1) : RoutedNames[i] = name THEN name ELSE ""

\* the handler call_tool routes a name to (handle_<name>), "" for the else branch
RouteOf(name) ==
  IF \E i \in 1..Len(RoutedNames) : RoutedNames[i] = name THEN name ELSE ""

\* a name no tool has
UnknownName == "drop_database"

\* a string a caller can send where the schema of the tool lists an enumeration
Hostile == "sum(1) FROM fact_carbon; DROP TABLE fact_carbon; --"

HostileUpper == "SUM(1) FROM FACT_CARBON; DROP TABLE FACT_CARBON; --"

\* str.upper on the strings of the model
Upper(s) ==
  CASE s = "sum" -> "SUM"
    [] s = "avg" -> "AVG"
    [] s = Hostile -> HostileUpper
    [] OTHER -> s

\* a country no table has a row for
Atlantis == 0

\* the keys an argument map can carry
ArgKeys ==
  {"country", "year", "threshold", "include_extent", "metric", "countries",
   "direction", "filter_tropical", "aggregation", "has_primary_data"}

\* the metric names the handlers know, and one they do not
MetricValues ==
  {"loss", "primary", "carbon", "all", "carbon_emissions", "carbon_removals",
   "carbon_intensity", "primary_share", "extent_2000", "extent_2010", "bogus"}

\* the metric enumeration list_tools gives in the inputSchema of a tool
AdvertisedMetrics(name) ==
  CASE name = "analyze_trend" -> {"loss", "primary", "carbon_emissions", "carbon_removals"}
    [] name = "compare_countries" -> {"loss", "primary", "carbon", "all"}
    [] name = "rank_countries" ->
         {"loss", "primary", "carbon_emissions", "carbon_intensity", "primary_share"}
    [] name = "aggregate_global" ->
         {"loss", "primary", "carbon_emissions", "extent_2000", "extent_2010"}
    [] OTHER -> {}

\* an argument map is its key set (given) and a value for each key; a key
\* that is not given carries the first value below, which nothing reads
ArgumentsGiven(g) ==
  [given : {g},
   country : IF "country" \in g THEN Keys \cup {Atlantis} ELSE {Atlantis},
   year : IF "year" \in g THEN {2023} ELSE {0},
   threshold : IF "threshold" \in g THEN {30, 10} ELSE {0},
   include_extent : IF "include_extent" \in g THEN {TRUE} ELSE {FALSE},
   metric : IF "metric" \in g THEN MetricValues ELSE {""},
   countries : IF "countries" \in g THEN {<<1>>, <<1, Atlantis>>} ELSE {<< >>},
   direction : IF "direction" \in g THEN {"bottom"} ELSE {""},
   filter_tropical : IF "filter_tropical" \in g THEN {TRUE} ELSE {FALSE},
   aggregation : IF "aggregation" \in g THEN {"sum", "avg", Hostile} ELSE {""},
   has_primary_data : IF "has_primary_data" \in g THEN {TRUE} ELSE {FALSE}]

\* the keys the handler of a tool reads
KeysRead(name) ==
  CASE name = "query_tree_cover_loss" -> {"country", "year", "threshold", "include_extent"}
    [] name = "query_primary_forest" -> {"country", "year"}
    [] name = "query_carbon_data" -> {"country", "year", "threshold"}
    [] name = "analyze_trend" -> {"metric", "country", "threshold"}
    [] name = "compare_countries" -> {"countries", "metric", "year"}
    [] name = "rank_countries" -> {"metric", "year", "direction", "filter_tropical"}
    [] name = "calculate_primary_share" -> {"country", "year"}
    [] name = "calculate_carbon_intensity" -> {"country", "year", "threshold"}
    [] name = "compare_thresholds" -> {"country", "year"}
    [] name = "aggregate_global" -> {"metric", "year", "aggregation", "threshold"}
    [] name = "list_tropical_countries" -> {"has_primary_data"}
    [] OTHER -> {}

\* the argument maps a caller can send with a name
ArgumentsOf(name) == UNION {ArgumentsGiven(g) : g \in SUBSET KeysRead(name)}

\* k in args
Has(args, k) == k \in args.given

\* args.get(k, d)
Get(args, k, d) == IF Has(args, k) THEN args[k] ELSE d

(***************************************************************************)
(* mcp_stdio_server: the SQL the handlers build                            *)
(***************************************************************************)
\* a piece of SQL text written in the server
Server(text) == [text |-> text, origin |-> "server"]

\* a piece of SQL text computed from args[k]: the caller's when k is given,
\* the server's default otherwise
FromArgument(args, k, text) ==
  [text |-> text, origin |-> IF Has(args, k) THEN "caller" ELSE "server"]

\* ','.join('?' * n)
Placeholders(n) == [i \in 1..n |-> Server("?")]

TreeCoverLoss == FactTables[1]

PrimaryForest == FactTables[2]

Carbon == FactTables[3]

\* what the model keeps of a statement: its text, the names of the values
\* bound to its placeholders, the table its rows come from, the tables it
\* joins or sub-selects, the countries it keeps the rows of (when filtered),
\* and whether it is an aggregate without GROUP BY, which gives one row
\* whatever the table holds
Select(sql, params, from, joins, filtered, keys, aggregate) ==
  [sql |-> sql, params |-> params, from |-> from, joins |-> joins,
   filtered |-> filtered, keys |-> keys, aggregate |-> aggregate]

\* get_latest_year
LatestYearQuery ==
  Select(<<Server("SELECT MAX(year) as max_year FROM fact_tree_cover_loss")>>,
         << >>, TreeCoverLoss, {}, FALSE, {}, TRUE)

\* what a handler does before and after its query: the keys it subscripts,
\* whether it calls get_latest_year, the early returns before and after that
\* call ("" when none applies), its statements, the statement it runs when
\* the first one gave no row, the text of its no-rows return ("" when it has
\* no such branch), whether it asks for enrichment, and whether its
\* formatting compares the values of the rows
Plan(required, early, latest, reject, queries, check, nodata, enrich, formats) ==
  [required |-> required, early |-> early, latest |-> latest, reject |-> reject,
   queries |-> queries, check |-> check, nodata |-> nodata, enrich |-> enrich,
   formats |-> formats]

CarbonThresholds == {30, 50, 75}

CountryFilter(args) == IF Has(args, "country") THEN {args.country} ELSE {}

handle_query_tree_cover_loss(args) ==
  Plan({"country"}, "", TRUE, "",
       <<Select(<<Server("SELECT "),
                  Server(IF Get(args, "include_extent", FALSE)
                         THEN "country, year, threshold, tree_cover_loss_ha, loss_rate_pct, extent_2000_ha, extent_2010_ha, area_ha"
                         ELSE "country, year, threshold, tree_cover_loss_ha, loss_rate_pct"),
                  Server(" FROM fact_tree_cover_loss WHERE country = ? AND year = ? AND threshold = ?")>>,
                <<"country", "year", "threshold">>, TreeCoverLoss, {}, TRUE,
                CountryFilter(args), FALSE)>>,
       << >>, "No data found; Suggestions", TRUE, FALSE)

handle_query_primary_forest(args) ==
  Plan({"country"}, "", TRUE, "",
       <<Select(<<Server("SELECT country, year, primary_forest_loss_ha, is_tropical, loss_status FROM fact_primary_forest WHERE country = ? AND year = ? AND threshold = 30")>>,
                <<"country", "year">>, PrimaryForest, {}, TRUE, CountryFilter(args), FALSE)>>,
       <<Select(<<Server("SELECT DISTINCT country FROM fact_primary_forest WHERE country = ?")>>,
                <<"country">>, PrimaryForest, {}, TRUE, CountryFilter(args), FALSE)>>,
       "No data found; Try a different year", TRUE, FALSE)

handle_query_carbon_data(args) ==
  Plan({"country"}, "", TRUE,
       IF Get(args, "threshold", 30) \notin CarbonThresholds
       THEN "Carbon data is only available for thresholds 30%, 50%, and 75%" ELSE "",
       <<Select(<<Server("SELECT country, year, threshold, carbon_emissions_mg_co2e, carbon_emissions_annual_avg, carbon_removals_annual_avg, carbon_net_flux_annual_avg, carbon_density_mg_c_ha, carbon_flux_status FROM fact_carbon WHERE country = ? AND year = ? AND threshold = ?")>>,
                <<"country", "year", "threshold">>, Carbon, {}, TRUE, CountryFilter(args), FALSE)>>,
       << >>, "No carbon data found; Suggestions", TRUE, TRUE)

\* the table and the value column analyze_trend and aggregate_global pick for a metric
MetricTable(metric) ==
  CASE metric \in {"loss", "extent_2000", "extent_2010"} -> TreeCoverLoss
    [] metric = "primary" -> PrimaryForest
    [] OTHER -> Carbon

ValueColumn(metric) ==
  CASE metric = "loss" -> "tree_cover_loss_ha"
    [] metric = "primary" -> "primary_forest_loss_ha"
    [] metric = "carbon_emissions" -> "carbon_emissions_mg_co2e"
    [] metric = "carbon_removals" -> "carbon_removals_annual_avg"
    [] metric = "carbon" -> "carbon_emissions_mg_co2e"
    [] metric = "extent_2000" -> "extent_2000_ha"
    [] metric = "extent_2010" -> "extent_2010_ha"
    [] OTHER -> ""

handle_analyze_trend(args) ==
  Plan({"metric"}, "", TRUE,
       IF args.metric \notin {"loss", "primary", "carbon_emissions", "carbon_removals"}
       THEN "Unknown metric" ELSE "",
       <<Select(<<Server("SELECT year, SUM("), Server(ValueColumn(args.metric)),
                  Server(") as total_value FROM "), Server(MetricTable(args.metric)),
                  Server(IF Has(args, "country")
                         THEN " WHERE country = ? AND year BETWEEN ? AND ? AND threshold = ? GROUP BY year ORDER BY year"
                         ELSE " WHERE year BETWEEN ? AND ? AND threshold = ? GROUP BY year ORDER BY year")>>,
                IF Has(args, "country")
                THEN <<"country", "start_year", "end_year", "threshold">>
                ELSE <<"start_year", "end_year", "threshold">>,
                MetricTable(args.metric), {}, Has(args, "country"), CountryFilter(args),
                FALSE)>>,
       << >>, "No trend data found", TRUE, TRUE)

handle_compare_countries(args) ==
  Plan({"countries", "metric"}, "", TRUE,
       IF Len(args.countries) < 2 THEN "Please provide at least 2 countries to compare"
       ELSE IF Len(args.countries) > 10 THEN "Maximum 10 countries can be compared"
       ELSE IF args.metric \notin {"loss", "primary", "carbon"} THEN "Unknown metric"
       ELSE "",
       <<Select(<<Server("SELECT country, year, "), Server(ValueColumn(args.metric)),
                  Server(" as value FROM "), Server(MetricTable(args.metric)),
                  Server(" WHERE country IN (")>>
                  \o Placeholders(Len(args.countries))
                  \o <<Server(IF args.metric = "primary"
                              THEN ") AND year = ? AND threshold = 30 ORDER BY value DESC"
                              ELSE ") AND year = ? AND threshold = ? ORDER BY value DESC")>>,
                [i \in 1..Len(args.countries) |-> "countries"]
                  \o (IF args.metric = "primary" THEN <<"year">> ELSE <<"year", "threshold">>),
                MetricTable(args.metric), {}, TRUE, Range(args.countries), FALSE)>>,
       << >>, "No data found for comparison; Check country names and try again", TRUE, TRUE)

TropicalOnly == "AND country IN (SELECT DISTINCT country FROM fact_primary_forest WHERE is_tropical = 1)"

handle_rank_countries(args) ==
  LET metric == args.metric
      order == IF Get(args, "direction", "top") = "top" THEN "DESC" ELSE "ASC"
      tropical == Get(args, "filter_tropical", FALSE)
                    /\ metric \in {"loss", "carbon_emissions", "carbon_intensity"}
      from == CASE metric \in {"loss", "primary_share"} -> TreeCoverLoss
                [] metric = "primary" -> PrimaryForest
                [] OTHER -> Carbon
      joins == (IF tropical THEN {PrimaryForest} ELSE {})
                 \cup (IF metric = "carbon_intensity" THEN {TreeCoverLoss} ELSE {})
                 \cup (IF metric = "primary_share" THEN {PrimaryForest} ELSE {})
  IN Plan({"metric"}, "", TRUE,
          IF metric \notin {"loss", "primary", "carbon_emissions", "carbon_intensity",
                            "primary_share"}
          THEN "Unknown metric" ELSE "",
          <<Select(<<Server("SELECT country, value FROM "), Server(from),
                     Server(IF metric \in {"primary", "primary_share"}
                            THEN " WHERE year = ? AND threshold = 30 "
                            ELSE " WHERE year = ? AND threshold = ? "),
                     Server(IF tropical THEN TropicalOnly ELSE ""),
                     Server(" ORDER BY value "), Server(order), Server(" LIMIT ?")>>,
                   IF metric \in {"primary", "primary_share"} THEN <<"year", "limit">>
                   ELSE <<"year", "threshold", "limit">>,
                   from, joins, FALSE, {}, FALSE)>>,
          << >>, "No ranking data found", TRUE, FALSE)

\* the single-year / trend branches calculate_primary_share and
\* calculate_carbon_intensity share
ShareWhere(args) ==
  IF Has(args, "year")
  THEN IF Has(args, "country") THEN " WHERE country = ? AND year = ?"
       ELSE " WHERE year = ? ORDER BY value DESC LIMIT 20"
  ELSE " WHERE country = ? AND year BETWEEN ? AND ? ORDER BY year"

ShareParams(args) ==
  IF Has(args, "year")
  THEN IF Has(args, "country") THEN <<"country", "year">> ELSE <<"year">>
  ELSE <<"country", "start_year", "end_year">>

handle_calculate_primary_share(args) ==
  Plan({}, "", ~Has(args, "year"),
       IF ~Has(args, "year") /\ ~Has(args, "country")
       THEN "For trend analysis without specifying a country, please specify start_year and end_year"
       ELSE "",
       <<Select(<<Server("SELECT t.country, t.year, t.tree_cover_loss_ha, p.primary_forest_loss_ha, primary_share_pct FROM fact_tree_cover_loss t JOIN fact_primary_forest p"),
                  Server(ShareWhere(args)), Server(" AND t.threshold = 30")>>,
                ShareParams(args), TreeCoverLoss, {PrimaryForest},
                Has(args, "country"), CountryFilter(args), FALSE)>>,
       << >>, "No primary share data found", TRUE, FALSE)

handle_calculate_carbon_intensity(args) ==
  Plan({},
       IF Get(args, "threshold", 30) \notin CarbonThresholds
       THEN "Carbon data only available for thresholds 30, 50, and 75" ELSE "",
       ~Has(args, "year"),
       IF ~Has(args, "year") /\ ~Has(args, "country")
       THEN "For trend analysis without country, specify start_year and end_year"
       ELSE "",
       <<Select(<<Server("SELECT c.country, c.year, t.tree_cover_loss_ha, c.carbon_emissions_mg_co2e, co2e_per_ha FROM fact_carbon c JOIN fact_tree_cover_loss t"),
                  Server(ShareWhere(args)), Server(" AND c.threshold = ?")>>,
                ShareParams(args) \o <<"threshold">>, Carbon, {TreeCoverLoss},
                Has(args, "country"), CountryFilter(args), FALSE)>>,
       << >>, "No carbon intensity data found", TRUE, FALSE)

DefaultThresholds == <<0, 30, 50, 75>>

handle_compare_thresholds(args) ==
  Plan({"country"}, "", TRUE, "",
       <<Select(<<Server("SELECT country, year, threshold, tree_cover_loss_ha FROM fact_tree_cover_loss WHERE country = ? AND year = ? AND threshold IN (")>>
                  \o Placeholders(Len(DefaultThresholds))
                  \o <<Server(") ORDER BY threshold")>>,
                <<"country", "year">> \o [i \in 1..Len(DefaultThresholds) |-> "thresholds"],
                TreeCoverLoss, {}, TRUE, CountryFilter(args), FALSE)>>,
       << >>, "No data found", TRUE, TRUE)

handle_aggregate_global(args) ==
  LET metric == args.metric
      forced == metric \in {"extent_2000", "extent_2010"}
      agg_func == IF forced THEN Server(Upper("sum"))
                  ELSE FromArgument(args, "aggregation",
                                    Upper(Get(args, "aggregation", "sum")))
  IN Plan({"metric"}, "", FALSE,
          IF metric \notin {"loss", "primary", "carbon_emissions", "extent_2000",
                            "extent_2010"}
          THEN "Unknown metric" ELSE "",
          <<Select(<<Server(IF Has(args, "year") THEN "SELECT " ELSE "SELECT year, "),
                     agg_func, Server("("), Server(ValueColumn(metric)),
                     Server(") as result, COUNT(DISTINCT country) as countries FROM "),
                     Server(MetricTable(metric)),
                     Server(IF Has(args, "year") THEN " WHERE year = ? AND threshold = ?"
                            ELSE " WHERE threshold = ? GROUP BY year ORDER BY result DESC LIMIT 10")>>,
                   IF Has(args, "year") THEN <<"year", "threshold">> ELSE <<"threshold">>,
                   MetricTable(metric), {}, FALSE, {}, Has(args, "year"))>>,
          << >>, "No data found for aggregation", TRUE, FALSE)

handle_list_tropical_countries(args) ==
  Plan({}, "", FALSE, "",
       IF Get(args, "has_primary_data", FALSE)
       THEN <<Select(<<Server("SELECT DISTINCT country FROM fact_primary_forest WHERE is_tropical = 1 ORDER BY country")>>,
                     << >>, PrimaryForest, {}, FALSE, {}, FALSE)>>
       ELSE << >>,
       << >>, "", FALSE, FALSE)

SummaryQuery(text, from, aggregate) ==
  Select(<<Server(text)>>, << >>, from, {}, FALSE, {}, aggregate)

handle_get_database_summary(args) ==
  Plan({}, "", FALSE, "",
       [i \in 1..Len(FactTables) |->
          Select(<<Server("SELECT COUNT(*) as count FROM "), Server(FactTables[i])>>,
                 << >>, FactTables[i], {}, FALSE, {}, TRUE)]
         \o <<SummaryQuery("SELECT MIN(year) as min_year, MAX(year) as max_year FROM fact_tree_cover_loss", TreeCoverLoss, TRUE),
              SummaryQuery("SELECT COUNT(DISTINCT country) as count FROM fact_tree_cover_loss", TreeCoverLoss, TRUE),
              SummaryQuery("SELECT COUNT(DISTINCT country) as count FROM fact_primary_forest WHERE is_tropical = 1", PrimaryForest, TRUE),
              SummaryQuery("SELECT DISTINCT threshold FROM fact_tree_cover_loss ORDER BY threshold", TreeCoverLoss, FALSE)>>,
       << >>, "", FALSE, FALSE)

\* the body of the handler a name is routed to
PlanOf(handler, args) ==
  CASE handler = "query_tree_cover_loss" -> handle_query_tree_cover_loss(args)
    [] handler = "query_primary_forest" -> handle_query_primary_forest(args)
    [] handler = "query_carbon_data" -> handle_query_carbon_data(args)
    [] handler = "analyze_trend" -> handle_analyze_trend(args)
    [] handler = "compare_countries" -> handle_compare_countries(args)
    [] handler = "rank_countries" -> handle_rank_countries(args)
    [] handler = "calculate_primary_share" -> handle_calculate_primary_share(args)
    [] handler = "calculate_carbon_intensity" -> handle_calculate_carbon_intensity(args)
    [] handler = "compare_thresholds" -> handle_compare_thresholds(args)
    [] handler = "aggregate_global" -> handle_aggregate_global(args)
    [] handler = "list_tropical_countries" -> handle_list_tropical_countries(args)
    [] OTHER -> handle_get_database_summary(args)

(***************************************************************************)
(* mcp_stdio_server: execute_query, call_climategpt, call_tool             *)
(***************************************************************************)
\* sqlite3 prepares one statement per execute: text that holds a second
\* statement raises before anything runs
OneStatement(q) == \A i \in 1..Len(q.sql) : q.sql[i].text # HostileUpper

\* the row of an aggregate without GROUP BY
AggregateRow == [key |-> Atlantis, val |-> AnyVal]

\* the statement raises: the file cannot be read, a table is not there, or
\* the text is not one statement
QueryFails(sch, q, locked) ==
  locked \/ q.from \notin sch \/ ~(q.joins \subseteq sch) \/ ~OneStatement(q)

RowsOf(rws, q) ==
  IF q.aggregate THEN {AggregateRow}
  ELSE {r \in rws[q.from] :
          /\ q.filtered => r.key \in q.keys
          /\ \A j \in q.joins : r.key \in KeysOf(rws[j])}

\* QueryExecutor.execute_query of the server: the rows, or [] when anything
\* raised; conn.close() is the statement before the return of the rows, and
\* the except clause has none
execute_query(sch, rws, q, locked) ==
  [sql |-> q.sql, params |-> q.params, failed |-> QueryFails(sch, q, locked),
   results |-> IF QueryFails(sch, q, locked) THEN {} ELSE RowsOf(rws, q),
   closed |-> ~QueryFails(sch, q, locked)]

\* the connections the calls of execute_query returned without closing; the
\* interpreter may finalize the unreferenced connection objects at once
\* (finalized) or later
LeftOpen(ran, finalized) ==
  IF finalized THEN 0 ELSE Cardinality({i \in DOMAIN ran : ~ran[i].closed})

ExecuteAll(sch, rws, qs, locked) ==
  [i \in 1..Len(qs) |-> execute_query(sch, rws, qs[i], locked)]

\* a driver call that runs every statement of the text
ScriptEffect(db, q) ==
  IF OneStatement(q) THEN db
  ELSE [schema |-> db.schema \ {Carbon}, rows |-> [db.rows EXCEPT ![Carbon] = {}]]

\* what cursor.execute of a statement of the server leaves of the database:
\* every statement is one SELECT
StatementEffect(db, q) == db

RECURSIVE EffectOfAll(_, _, _)
EffectOfAll(db, qs, i) ==
  IF i > Len(qs) THEN db ELSE EffectOfAll(StatementEffect(db, qs[i]), qs, i + 1)

\* how the request to the enrichment endpoint can end; "skipped" is the
\* return before the request when the credentials are not configured
ClimateOutcomes == {"ok", "non200", "transport", "timeout", "skipped"}

\* a call_climategpt without its try/except
call_climategpt_unguarded(reply) ==
  [raised |-> reply \in {"transport", "timeout"},
   text |-> IF reply = "ok" THEN "analysis" ELSE ""]

\* call_climategpt: the completion text, "" on anything else
call_climategpt(reply) ==
  [raised |-> FALSE, text |-> IF reply = "ok" THEN "analysis" ELSE ""]

\* types.TextContent(type="text", text=...) and what the model keeps of the
\* call: the handler that ran, the rows the answer is about, the parts of the
\* answer text in order
TextContent(kind, handler, text, results, parts) ==
  [kind |-> kind, handler |-> handler, text |-> text, results |-> results,
   parts |-> parts]

\* a handler ended: by an exception (raised # ""), or with its text content
Ended(ran, raised, content, reply) ==
  [executed |-> ran, raised |-> raised, content |-> content, climate |-> reply]

NoContent == NoResponse

\* response += climate block when there is one; add_source_attribution
Answer(handler, results, analysis) ==
  TextContent("answer", handler, "", results,
              IF analysis # "" THEN <<"numeric", "climate", "source">>
              ELSE <<"numeric", "source">>)

\* the body of a handler, from its first line to its return or exception
Handle(handler, args, sch, rws, locked, formatRaises, reply) ==
  LET plan == PlanOf(handler, args)
      latest == IF plan.latest
                THEN <<execute_query(sch, rws, LatestYearQuery, locked)>> ELSE << >>
      ran == latest \o ExecuteAll(sch, rws, plan.queries, locked)
      results == IF plan.queries = << >> THEN {}
                 ELSE execute_query(sch, rws, plan.queries[1], locked).results
      checked == ran \o ExecuteAll(sch, rws, plan.check, locked)
      enriched == call_climategpt(reply)
  IN IF ~(plan.required \subseteq args.given)
       THEN Ended(<< >>, "KeyError", NoContent, "not_called")
     ELSE IF plan.early # ""
       THEN Ended(<< >>, "", TextContent("rejected", handler, plan.early, {}, << >>),
                  "not_called")
     ELSE IF plan.reject # ""
       THEN Ended(latest, "", TextContent("rejected", handler, plan.reject, {}, << >>),
                  "not_called")
     ELSE IF plan.nodata # "" /\ results = {}
       THEN Ended(checked, "", TextContent("no_data", handler, plan.nodata, {}, << >>),
                  "not_called")
     ELSE IF plan.formats /\ formatRaises /\ results # {}
       THEN Ended(ran, "TypeError", NoContent, "not_called")
     ELSE IF ~plan.enrich
       THEN Ended(ran, "", Answer(handler, results, ""), "not_called")
     ELSE IF enriched.raised
       THEN Ended(ran, "Exception", NoContent, reply)
     ELSE Ended(ran, "", Answer(handler, results, enriched.text), reply)

\* call_tool: route, and turn any exception into a text
call_tool(name, args, sch, rws, locked, formatRaises, reply) ==
  LET handler == RouteOf(name)
      h == Handle(handler, args, sch, rws, locked, formatRaises, reply)
  IN IF handler = ""
       THEN Ended(<< >>, "", TextContent("unknown_tool", "", "Unknown tool", {}, << >>),
                  "not_called")
     ELSE IF h.raised # ""
       THEN [h EXCEPT !.content = TextContent("error", handler, h.raised, {}, << >>)]
     ELSE h

\* the open connections the model counts up to
MaxOpen == 1

\* one invocation, from the request to the response
CallTool(name, args, locked, formatRaises, reply) ==
  LET r == call_tool(name, args, schema, rows, locked, formatRaises, reply)
      db == EffectOfAll([schema |-> schema, rows |-> rows], r.executed, 1)
  IN /\ tool = NoTool
     /\ tool' = [name |-> name, arguments |-> args, locked |-> locked]
     /\ executed' = r.executed
     /\ response' = r.content
     /\ climate' = r.climate
     /\ \E finalized \in BOOLEAN :
          connections' = connections + LeftOpen(r.executed, finalized)
     /\ connections' <= MaxOpen
     /\ schema' = db.schema
     /\ rows' = db.rows

\* the response is written; the server waits for the next invocation
NextRequest ==
  /\ tool # NoTool
  /\ tool' = NoTool
  /\ executed' = << >>
  /\ response' = NoResponse
  /\ climate' = "not_called"
  /\ UNCHANGED <<dbvars, connections>>

\* what surrounds an invocation: the database file cannot be read; a value
\* the formatting compares is NULL; or the request to the endpoint ends in
\* one of the ways of ClimateOutcomes
Environments ==
  {[locked |-> TRUE, formatRaises |-> FALSE, reply |-> "skipped"],
   [locked |-> FALSE, formatRaises |-> TRUE, reply |-> "skipped"]}
    \cup [locked : {FALSE}, formatRaises : {FALSE}, reply : ClimateOutcomes]

\* databases the server can be started on: none, or exported fact tables,
\* the primary forest table with the same countries or with none
InitMcp ==
  /\ schema \in {{}, FullSchema}
  /\ \E base \in SUBSET Keys, other \in BOOLEAN :
       rows = [t \in Tables |->
                 IF schema = {} \/ (t = PrimaryForest /\ other) THEN {}
                 ELSE {[key |-> k, val |-> AnyVal] : k \in base}]
  /\ CallIdle
  /\ FilesIdle
  /\ RunIdle
  /\ ExtIdle

NextMcp ==
  \/ /\ tool = NoTool
     /\ \E name \in Range(ToolNames) \cup {UnknownName} :
          \E args \in ArgumentsOf(name), env \in Environments :
            CallTool(name, args, env.locked, env.formatRaises, env.reply)
     /\ UNCHANGED <<callvars, filevars, runvars, wherevars, metavars, statvars, etlvars, viewvars>>
  \/ /\ NextRequest
     /\ UNCHANGED <<callvars, filevars, runvars, wherevars, metavars, statvars, etlvars, viewvars>>

SpecMcp == InitMcp /\ [][NextMcp]_vars

(***************************************************************************)
(* QueryExecutor.build_where_clause                                        *)
(***************************************************************************)
\* entries of a condition map
MaxConds == 2

\* a column name is the sequence of its characters
Letters == {"a"}

Digits == {"1"}

\* str.isalnum: not empty, every character a letter or a digit
IsAlnum(s) == s # << >> /\ \A i \in 1..Len(s) : s[i] \in Letters \cup Digits

\* s.replace('_', '')
RECURSIVE WithoutUnderscores(_)
WithoutUnderscores(s) ==
  IF s = << >> THEN << >>
  ELSE IF Head(s) = "_" THEN WithoutUnderscores(Tail(s))
  ELSE <<Head(s)>> \o WithoutUnderscores(Tail(s))

\* the check build_where_clause makes of a column name
ValidColumn(column) == IsAlnum(WithoutUnderscores(column))

\* column names a caller can give
ColumnNames ==
  {<<"a">>, <<"a", "_", "1">>, <<"_">>, << >>, <<"a", ";">>, <<"a", " ", "1">>}

\* values: None, a scalar, a list or tuple of scalars
ConditionValues ==
  {[kind |-> "none", items |-> << >>], [kind |-> "scalar", items |-> <<"v">>],
   [kind |-> "list", items |-> << >>], [kind |-> "list", items |-> <<"v">>],
   [kind |-> "list", items |-> <<"v", "w">>]}

\* a dict: entries in insertion order, no key twice
ConditionMaps ==
  {c \in SeqsUpTo([column : ColumnNames, value : ConditionValues], MaxConds) :
     \A i, j \in 1..Len(c) : c[i].column = c[j].column => i = j}

\* the predicate an entry adds to where_parts: its column, its form and the
\* number of ? it holds
WherePart(entry) ==
  CASE entry.value.kind = "none" ->
         [column |-> entry.column, form |-> "IS NULL", placeholders |-> 0]
    [] entry.value.kind = "list" ->
         [column |-> entry.column, form |-> "IN",
          placeholders |-> Len(entry.value.items)]
    [] OTHER -> [column |-> entry.column, form |-> "=", placeholders |-> 1]

\* what an entry adds to params
WhereParams(entry) == IF entry.value.kind = "none" THEN << >> ELSE entry.value.items

\* the loop over conditions.items(): parts and params so far, or the raise
RECURSIVE WhereLoop(_, _, _, _)
WhereLoop(conds, i, parts, params) ==
  IF i > Len(conds)
    THEN [state |-> "returned", prefix |-> "WHERE", parts |-> parts, params |-> params]
  ELSE IF ~ValidColumn(conds[i].column)
    THEN [state |-> "raised", prefix |-> "", parts |-> << >>, params |-> << >>]
  ELSE WhereLoop(conds, i + 1, Append(parts, WherePart(conds[i])),
                 params \o WhereParams(conds[i]))

\* build_where_clause: ("", ()) for an empty map, else "WHERE " + the parts
\* joined by " AND ", and the parameters
build_where_clause(conds) ==
  IF conds = << >>
    THEN [state |-> "returned", prefix |-> "", parts |-> << >>, params |-> << >>]
  ELSE WhereLoop(conds, 1, << >>, << >>)

BuildWhereClause ==
  /\ built = NotBuilt
  /\ built' = build_where_clause(conditions)
  /\ UNCHANGED conditions

InitWhere ==
  /\ schema = {}
  /\ rows = NoRows
  /\ CallIdle
  /\ FilesIdle
  /\ RunIdle
  /\ ServerIdle
  /\ MetaIdle
  /\ StatsIdle
  /\ EtlIdle
  /\ ViewsIdle
  /\ conditions \in ConditionMaps
  /\ built = NotBuilt

NextWhere ==
  \/ /\ BuildWhereClause
     /\ UNCHANGED <<dbvars, callvars, filevars, runvars, mcpvars, metavars, statvars,
                  etlvars, viewvars>>

SpecWhere == InitWhere /\ [][NextWhere]_vars

(***************************************************************************)
(* MetadataManager: construction of the process-wide instance              *)
(***************************************************************************)
\* the thread that imports the module, and two threads that use it
Importer == "import"

Threads == {Importer, "t1", "t2"}

\* constructions one thread makes
MaxConstructions == 2

\* an object as super().__new__ gives it: no attribute set
NewObject == [initialized |-> FALSE, semantic |-> "unset", runtime |-> "unset", loads |-> 0]

\* the module body has run to its end: metadata_manager = MetadataManager()
\* has returned in the importing thread
Imported == thr[Importer].n > 0 /\ thr[Importer].pc \in {"idle", "returned"}

\* a thread can reach the class at any time
CanConstructUnimported(t) == TRUE

\* a thread reaches the class through the module: the importing thread runs
\* the module body, every other thread gets the module once its import is over
CanConstruct(t) == t = Importer \/ Imported

\* MetadataManager(): the call begins
Construct(t) ==
  /\ thr[t].pc \in {"idle", "returned"}
  /\ thr[t].n < MaxConstructions
  /\ CanConstruct(t)
  /\ thr' = [thr EXCEPT ![t] = [pc |-> "new", self |-> 0, n |-> thr[t].n + 1]]
  /\ UNCHANGED <<instance, attrs, yielded>>

\* __new__: the first test of cls._instance, outside the lock
NewCheck(t) ==
  /\ thr[t].pc = "new"
  /\ thr' = [thr EXCEPT ![t].pc = IF instance = 0 THEN "lock" ELSE "init",
                        ![t].self = instance]
  /\ UNCHANGED <<instance, attrs, yielded>>

\* __new__: with cls._lock held, the second test and the creation
NewLocked(t) ==
  /\ thr[t].pc = "lock"
  /\ IF instance = 0
     THEN /\ attrs' = Append(attrs, NewObject)
          /\ instance' = Len(attrs')
     ELSE UNCHANGED <<instance, attrs>>
  /\ thr' = [thr EXCEPT ![t].pc = "init", ![t].self = instance']
  /\ UNCHANGED yielded

\* what the caller of MetadataManager() holds when the call returns
Held(t, objs) == [object |-> thr[t].self,
                  semantic |-> objs[thr[t].self].semantic,
                  runtime |-> objs[thr[t].self].runtime]

\* __init__: the test of the initialized attribute; the call returns when set
InitCheck(t) ==
  /\ thr[t].pc = "init"
  /\ IF attrs[thr[t].self].initialized
     THEN /\ thr' = [thr EXCEPT ![t].pc = "returned"]
          /\ yielded' = yielded \cup {Held(t, attrs)}
     ELSE /\ thr' = [thr EXCEPT ![t].pc = "fields"]
          /\ UNCHANGED yielded
  /\ UNCHANGED <<instance, attrs>>

\* __init__: semantic and runtime set to None, initialized set
InitFields(t) ==
  /\ thr[t].pc = "fields"
  /\ attrs' = [attrs EXCEPT ![thr[t].self].semantic = "None",
                            ![thr[t].self].runtime = "None",
                            ![thr[t].self].initialized = TRUE]
  /\ thr' = [thr EXCEPT ![t].pc = "load_semantic"]
  /\ UNCHANGED <<instance, yielded>>

\* _load_semantic_metadata: read from the file, or the defaults
LoadSemanticMetadata(t) ==
  /\ thr[t].pc = "load_semantic"
  /\ attrs' = [attrs EXCEPT ![thr[t].self].semantic = "loaded"]
  /\ thr' = [thr EXCEPT ![t].pc = "load_runtime"]
  /\ UNCHANGED <<instance, yielded>>

\* _load_runtime_metadata, then the call returns
LoadRuntimeMetadata(t) ==
  /\ thr[t].pc = "load_runtime"
  /\ attrs' = [attrs EXCEPT ![thr[t].self].runtime = "loaded",
                            ![thr[t].self].loads = @ + 1]
  /\ thr' = [thr EXCEPT ![t].pc = "returned"]
  /\ yielded' = yielded \cup {Held(t, attrs')}
  /\ UNCHANGED instance

\* the module is about to be imported: no instance, no thread in the class
InitMeta ==
  /\ schema = {}
  /\ rows = NoRows
  /\ CallIdle
  /\ FilesIdle
  /\ RunIdle
  /\ ExtIdle

NextMeta ==
  \/ (\E t \in Threads : Construct(t)) /\ UNCHANGED othersOfMeta
  \/ (\E t \in Threads : NewCheck(t)) /\ UNCHANGED othersOfMeta
  \/ (\E t \in Threads : NewLocked(t)) /\ UNCHANGED othersOfMeta
  \/ (\E t \in Threads : InitCheck(t)) /\ UNCHANGED othersOfMeta
  \/ (\E t \in Threads : InitFields(t)) /\ UNCHANGED othersOfMeta
  \/ (\E t \in Threads : LoadSemanticMetadata(t)) /\ UNCHANGED othersOfMeta
  \/ (\E t \in Threads : LoadRuntimeMetadata(t)) /\ UNCHANGED othersOfMeta

SpecMeta == InitMeta /\ [][NextMeta]_vars

(***************************************************************************)
(* MetadataManager.update_runtime_stats on any runtime metadata            *)
(***************************************************************************)
\* calls of update_runtime_stats in a row
MaxUpdates == 1

\* runtime metadata the call can find: the defaults, or what an earlier
\* run left at time 1
RuntimeStates ==
  {DefaultRuntime(0),
   [row_counts |-> [t \in Tables |-> 2],
    validation_status |-> [t \in Tables |-> "PASS"],
    data_quality |-> [q \in QualityKeys |-> 1],
    pipeline_version |-> "0.9.0",
    last_pipeline_run |-> 1,
    last_update |-> 1]}

\* the maps over some of the keys ks with values in vs
PartialMaps(ks, vs) == UNION {[s -> vs] : s \in SUBSET ks}

\* update maps: each of the five keys given or not; the maps name a key
\* the metadata has and one it has not
UpdateMaps ==
  {u \in [given : SUBSET {"row_counts", "validation_status", "data_quality",
                          "pipeline_run", "version"},
          version : {"1.0.0", "2.0.0"},
          row_counts : PartialMaps({"fact_carbon", "dim_countries"}, {3}),
          validation_status : PartialMaps({"fact_carbon"}, {"FAIL"}),
          data_quality : PartialMaps({"accuracy"}, {1})] :
     /\ "row_counts" \notin u.given => u.row_counts = NoMap
     /\ "validation_status" \notin u.given => u.validation_status = NoMap
     /\ "data_quality" \notin u.given => u.data_quality = NoMap
     /\ "version" \notin u.given <=> u.version = "1.0.0"}

\* metadata_manager.update_runtime_stats(upd) at time now
UpdateStats(upd, now) ==
  /\ updating.calls < MaxUpdates
  /\ updating' = [before |-> updating.after,
                  update |-> upd,
                  now |-> now,
                  after |-> UpdateRuntimeStats(updating.after, upd, now),
                  calls |-> updating.calls + 1]

InitStats ==
  /\ schema = {}
  /\ rows = NoRows
  /\ CallIdle
  /\ FilesIdle
  /\ RunIdle
  /\ ServerIdle
  /\ WhereIdle
  /\ MetaIdle
  /\ EtlIdle
  /\ ViewsIdle
  /\ \E rt \in RuntimeStates :
       updating = [before |-> rt, update |-> SessionUpdate, now |-> 1, after |-> rt,
                   calls |-> 0]

NextStats ==
  \/ /\ \E upd \in UpdateMaps : UpdateStats(upd, updating.now + 1)
     /\ UNCHANGED othersOfStats

SpecStats == InitStats /\ [][NextStats]_vars

(***************************************************************************)
(* The values of a run: sheets, clean_data, transform_data, export_data    *)
(***************************************************************************)
\* a cell: a number, or the absent value
Null == [null |-> TRUE, v |-> 0]

Num(n) == [null |-> FALSE, v |-> n]

\* pl.col(c) < 0 is true of a cell: an absent value compares to null
IsNegative(x) == ~x.null /\ x.v < 0

\* what a numeric cell of a sheet can hold
SheetValues == {Null, Num(-1), Num(0), Num(2)}

ThresholdColumn == "umd_tree_cover_density_2000__threshold"

NetFluxColumn == "gfw_forest_carbon_net_flux__Mg_CO2e_yr-1"

EmissionsColumn == "gfw_forest_carbon_gross_emissions_2001__Mg_CO2e"

\* the columns a tree cover or primary forest sheet can have that match
\* tc_loss_ha_\d{4}$, in sheet order
TreeYearColumns == <<"tc_loss_ha_2001", "tc_loss_ha_2002", "tc_loss_ha_2025">>

\* the column of the carbon sheet that matches
\* gfw_forest_carbon_gross_emissions_\d{4}__Mg_CO2e$
CarbonYearColumns == <<EmissionsColumn>>

\* the first run of four digits in the name of a year column
YearDigits ==
  ("tc_loss_ha_2001" :> <<2, 0, 0, 1>>) @@ ("tc_loss_ha_2002" :> <<2, 0, 0, 2>>)
    @@ ("tc_loss_ha_2025" :> <<2, 0, 2, 5>>) @@ (EmissionsColumn :> <<2, 0, 0, 1>>)

\* the digits read as two digits only
ExtractYearShort(c) == YearDigits[c][3] * 10 + YearDigits[c][4]

\* str.extract(r'(\d{4})', 1).cast(pl.Int32)
ExtractYear(c) ==
  YearDigits[c][1] * 1000 + YearDigits[c][2] * 100 + YearDigits[c][3] * 10
    + YearDigits[c][4]

\* the tree cover sheets of one row: a country written as the source writes
\* it, a threshold, the extent and one loss per year
TreeSheets ==
  {<<("country" :> "Burma") @@ (ThresholdColumn :> 30) @@ ("extent_2000_ha" :> e)
       @@ ("tc_loss_ha_2001" :> a) @@ ("tc_loss_ha_2002" :> b)>> :
     e \in SheetValues, a \in SheetValues, b \in SheetValues}

\* a row of the carbon sheet
CarbonSheetRow(t, f, x) ==
  ("country" :> "Burma") @@ (ThresholdColumn :> t) @@ (NetFluxColumn :> f)
    @@ (EmissionsColumn :> x)

\* the carbon sheets: a row of any threshold, and after it no row or a row
\* of threshold 50; the net flux of a sink is negative
CarbonSheets ==
  {<<CarbonSheetRow(t, f, x)>> :
     t \in {25, 30, 75}, f \in {Num(-1), Num(2)}, x \in SheetValues}
    \cup {<<CarbonSheetRow(t, f, x), CarbonSheetRow(50, Num(2), Num(2))>> :
            t \in {25, 30, 75}, f \in {Num(-1), Num(2)}, x \in SheetValues}

\* the primary forest sheets of one row, with the threshold the sheet gives
PrimarySheets ==
  {<<("country" :> "Burma") @@ (ThresholdColumn :> t) @@ ("tc_loss_ha_2001" :> Num(2))
       @@ ("tc_loss_ha_2002" :> p)>> :
     t \in {30, 75}, p \in {Null, Num(2), Num(5)}}

\* df.columns
Columns(df) == DOMAIN df[1]

\* country_mappings, for the names of the sheets above
CountryMappings == ("Burma" :> "Myanmar")

\* str.strip_chars, for the names of the sheets above
StripChars(s) == IF s = " Burma " THEN "Burma" ELSE s

\* the mappings applied to a name, one after the other
Mapped(s) == IF s \in DOMAIN CountryMappings THEN CountryMappings[s] ELSE s

\* clean_country_names without its trimming
clean_country_names_untrimmed(df) ==
  IF "country" \notin Columns(df) THEN df
  ELSE [i \in 1..Len(df) |->
          [c \in DOMAIN df[i] |-> IF c = "country" THEN Mapped(df[i][c]) ELSE df[i][c]]]

\* clean_country_names: the mappings, then the whitespace trimmed
clean_country_names(df) ==
  IF "country" \notin Columns(df) THEN df
  ELSE [i \in 1..Len(df) |->
          [c \in DOMAIN df[i] |->
             IF c = "country" THEN StripChars(Mapped(df[i][c])) ELSE df[i][c]]]

\* the columns whose name holds "net_flux" or "removals"
SinkColumns ==
  {NetFluxColumn, "gfw_forest_carbon_gross_removals__Mg_CO2_yr-1",
   "carbon_net_flux_annual_avg", "carbon_removals_annual_avg"}

\* fix_negative_values: a name that is no column of df is passed over, so is
\* a column of SinkColumns; in the others a negative becomes the absent value
fix_negative_values(df, columns) ==
  LET fixed == {c \in columns : c \in Columns(df) /\ c \notin SinkColumns}
  IN [i \in 1..Len(df) |->
        [c \in DOMAIN df[i] |->
           IF c \in fixed /\ IsNegative(df[i][c]) THEN Null ELSE df[i][c]]]

\* _add_data_quality_flag
DataQualityFlag(x) ==
  IF x.null THEN "NULL" ELSE IF x.v = 0 THEN "ZERO" ELSE IF x.v < 0 THEN "INVALID"
  ELSE "VALID"

\* the year ranges of the semantic metadata: tree cover and carbon
YearRange == [first |-> 2001, last |-> 2024]

\* the year range of the semantic metadata: primary forest
PrimaryYearRange == [first |-> 2002, last |-> 2024]

\* every year is in the range
AnyYear == [first |-> 0, last |-> 9999]

\* the year columns of df
YearColumnsOf(df, yearColumns) == SelectSeq(yearColumns, LAMBDA yc : yc \in Columns(df))

\* _melt_year_columns: for each year column in turn, one row for each row
\* of df, with the year read from the name of the column
Melt(df, yearColumns) ==
  LET on == YearColumnsOf(df, yearColumns)
  IN [k \in 1..(Len(on) * Len(df)) |->
        [row |-> df[((k - 1) % Len(df)) + 1],
         yc |-> on[((k - 1) \div Len(df)) + 1],
         year |-> ExtractYear(on[((k - 1) \div Len(df)) + 1])]]

\* filter(pl.col("year").is_between(first, last))
YearsBetween(long, range) ==
  SelectSeq(long, LAMBDA l : l.year >= range.first /\ l.year <= range.last)

\* the order of the country names as strings
CountryRank ==
  (" Burma " :> 0) @@ ("Brazil" :> 1) @@ ("Burma" :> 2) @@ ("Myanmar" :> 3)
    @@ ("Peru" :> 4)

\* sort(["country", "year", "threshold"])
SortFacts(df) ==
  SortSeq(df, LAMBDA a, b :
    \/ CountryRank[a.country] < CountryRank[b.country]
    \/ /\ a.country = b.country
       /\ \/ a.year < b.year
          \/ a.year = b.year /\ a.threshold < b.threshold)

\* a row of fact_tree_cover_loss from a row of the sheet and a year column
TreeFactRow(r, yc, year) ==
  [country |-> r["country"],
   threshold |-> r[ThresholdColumn],
   year |-> year,
   tree_cover_loss_ha |-> r[yc],
   extent_2000_ha |-> r["extent_2000_ha"],
   loss_rate_pct |-> IF ~r["extent_2000_ha"].null /\ r["extent_2000_ha"].v > 0
                        /\ ~r[yc].null
                     THEN Num((r[yc].v * 100) \div r["extent_2000_ha"].v) ELSE Null,
   data_quality_flag |-> DataQualityFlag(r[yc])]

\* TreeCoverTransformer.transform with the years kept given
TreeCoverTransformWithin(df, range) ==
  LET long == YearsBetween(Melt(df, TreeYearColumns), range)
  IN SortFacts([k \in DOMAIN long |-> TreeFactRow(long[k].row, long[k].yc, long[k].year)])

\* TreeCoverTransformer.transform
TreeCoverTransform(df) == TreeCoverTransformWithin(df, YearRange)

PRIMARY_THRESHOLD == 30

\* the tropical countries of the semantic metadata
TropicalCountries == {"Myanmar", "Brazil", "Peru"}

\* a row of fact_primary_forest from a row of the sheet and a year column;
\* of the sheet's columns only country is kept
PrimaryFactRow(r, yc, year, threshold) ==
  [country |-> r["country"],
   threshold |-> threshold,
   year |-> year,
   primary_forest_loss_ha |-> r[yc],
   is_tropical |-> r["country"] \in TropicalCountries,
   loss_status |-> IF r[yc].null THEN "NO_DATA" ELSE IF r[yc].v = 0 THEN "NO_LOSS"
                   ELSE "LOSS_RECORDED"]

\* the threshold column of the sheet kept as the threshold of the row
SheetThreshold(r) == r[ThresholdColumn]

\* pl.lit(PRIMARY_THRESHOLD)
FixedThreshold(r) == PRIMARY_THRESHOLD

\* PrimaryForestTransformer.transform
PrimaryForestTransform(df) ==
  LET long == YearsBetween(Melt(df, TreeYearColumns), PrimaryYearRange)
  IN SortFacts([k \in DOMAIN long |->
                  PrimaryFactRow(long[k].row, long[k].yc, long[k].year,
                                 FixedThreshold(long[k].row))])

CARBON_THRESHOLDS == {30, 50, 75}

\* a row of fact_carbon from a row of the sheet and a year column
CarbonFactRow(r, yc, year) ==
  [country |-> r["country"],
   threshold |-> r[ThresholdColumn],
   year |-> year,
   carbon_emissions_mg_co2e |-> r[yc],
   carbon_net_flux_annual_avg |-> r[NetFluxColumn],
   carbon_flux_status |-> IF IsNegative(r[NetFluxColumn]) THEN "SINK"
                          ELSE IF ~r[NetFluxColumn].null /\ r[NetFluxColumn].v > 0
                          THEN "SOURCE" ELSE "NEUTRAL"]

\* every row of the carbon sheet kept
AnyThreshold(df) == df

\* df.filter(pl.col("threshold").is_in(CARBON_THRESHOLDS))
CarbonThresholdFilter(df) ==
  SelectSeq(df, LAMBDA r : r[ThresholdColumn] \in CARBON_THRESHOLDS)

\* CarbonTransformer.transform, when a row is left after the filter
CarbonTransform(df) ==
  LET long == YearsBetween(Melt(CarbonThresholdFilter(df), CarbonYearColumns), YearRange)
  IN SortFacts([k \in DOMAIN long |->
                  CarbonFactRow(long[k].row, long[k].yc, long[k].year)])

\* a transformer raises ValueError: a sheet without a year column, or no
\* row of the carbon sheet left after the filter on the threshold
TransformRaises(tree, primary, carbon) ==
  \/ YearColumnsOf(tree, TreeYearColumns) = << >>
  \/ YearColumnsOf(primary, TreeYearColumns) = << >>
  \/ CarbonThresholdFilter(carbon) = << >>
  \/ YearColumnsOf(carbon, CarbonYearColumns) = << >>

\* the primary key of a row of a fact table
PrimaryKeyOf(table, r) ==
  IF table = PrimaryForest THEN <<r.country, r.year>>
  ELSE <<r.country, r.year, r.threshold>>

\* the INSERT of the rows of df into the table raises IntegrityError: two rows
\* of one primary key, or a threshold the CHECK of fact_carbon refuses
InsertRaises(table, df) ==
  \/ \E i, j \in DOMAIN df : i # j /\ PrimaryKeyOf(table, df[i]) = PrimaryKeyOf(table, df[j])
  \/ table = Carbon /\ \E i \in DOMAIN df : df[i].threshold \notin {30, 50, 75}

\* ROUND(x * 100, 2) of the quotient x = p / t, in hundredths; t > 0
RoundedPercentage(p, t) ==
  IF p >= 0 THEN (p * 20000 + t) \div (2 * t)
  ELSE 0 - (((0 - p) * 20000 + t) \div (2 * t))

\* the primary_percentage column of v_primary_forest_percentage for a row t
\* of fact_tree_cover_loss and the loss p of the row of fact_primary_forest
\* joined to it (the absent value when no row is joined), in hundredths
PrimaryPercentage(t, p) ==
  IF ~t.tree_cover_loss_ha.null /\ t.tree_cover_loss_ha.v > 0 /\ ~p.null
  THEN Num(RoundedPercentage(p.v, t.tree_cover_loss_ha.v))
  ELSE Null

\* v_primary_forest_percentage: the rows of fact_tree_cover_loss of
\* threshold 30, each LEFT JOINed to the rows of fact_primary_forest of its
\* country and year
v_primary_forest_percentage(tree, primary) ==
  LET joined(t) == {j \in DOMAIN primary :
                      primary[j].country = t.country /\ primary[j].year = t.year}
  IN UNION {IF joined(tree[i]) = {}
            THEN {[country |-> tree[i].country, year |-> tree[i].year,
                   tree_cover_loss_ha |-> tree[i].tree_cover_loss_ha,
                   primary_forest_loss_ha |-> Null,
                   primary_percentage |-> PrimaryPercentage(tree[i], Null)]}
            ELSE {[country |-> tree[i].country, year |-> tree[i].year,
                   tree_cover_loss_ha |-> tree[i].tree_cover_loss_ha,
                   primary_forest_loss_ha |-> primary[j].primary_forest_loss_ha,
                   primary_percentage |->
                     PrimaryPercentage(tree[i], primary[j].primary_forest_loss_ha)] :
                    j \in joined(tree[i])} :
            i \in {k \in DOMAIN tree : tree[k].threshold = 30}}

\* step 3 of the run
CleanFrames ==
  /\ etl.stage = "loaded"
  /\ etl' = [stage |-> "cleaned",
             tree |-> fix_negative_values(clean_country_names(etl.tree),
                                          {"tree_cover_loss_ha", "extent_2000_ha"}),
             primary |-> clean_country_names(etl.primary),
             carbon |-> fix_negative_values(clean_country_names(etl.carbon),
                                            {"carbon_emissions_mg_co2e"})]

\* step 4 of the run
TransformFrames ==
  /\ etl.stage = "cleaned"
  /\ etl' = IF TransformRaises(etl.tree, etl.primary, etl.carbon)
            THEN [etl EXCEPT !.stage = "failed"]
            ELSE [stage |-> "transformed",
                  tree |-> TreeCoverTransform(etl.tree),
                  primary |-> PrimaryForestTransform(etl.primary),
                  carbon |-> CarbonTransform(etl.carbon)]

\* step 5 of the run: export_dataframe empties each table and inserts the
\* rows of its frame with their columns as they are; the run then ends
\* without a failure, unless an INSERT raises
ExportFrames ==
  /\ etl.stage = "transformed"
  /\ etl' = IF \/ InsertRaises(TreeCoverLoss, etl.tree)
               \/ InsertRaises(PrimaryForest, etl.primary)
               \/ InsertRaises(Carbon, etl.carbon)
            THEN [etl EXCEPT !.stage = "failed"]
            ELSE [etl EXCEPT !.stage = "exported"]

InitClean ==
  /\ schema = {}
  /\ rows = NoRows
  /\ CallIdle
  /\ FilesIdle
  /\ RunIdle
  /\ ServerIdle
  /\ WhereIdle
  /\ MetaIdle
  /\ StatsIdle
  /\ etl \in [stage : {"loaded"}, tree : TreeSheets, primary : PrimarySheets,
              carbon : CarbonSheets]
  /\ applied = NotApplied
  /\ ViewsIdle

NextClean ==
  \/ CleanFrames /\ UNCHANGED <<othersOfClean, applied>>
  \/ TransformFrames /\ UNCHANGED <<othersOfClean, applied>>
  \/ ExportFrames /\ UNCHANGED <<othersOfClean, applied>>

SpecClean == InitClean /\ [][NextClean]_vars

(***************************************************************************)
(* TreeCoverTransformer.transform and clean_country_names on any table      *)
(***************************************************************************)
\* a row of a wide tree cover table with the year columns ycs, every loss v
WideRow(c, t, ycs, v) ==
  ("country" :> c) @@ (ThresholdColumn :> t) @@ ("extent_2000_ha" :> Num(2))
    @@ [yc \in ycs |-> v]

\* the rows of a table: for each country in turn, one row for each threshold
RECURSIVE WideRows(_, _, _, _)
WideRows(cs, ts, ycs, v) ==
  IF cs = << >> THEN << >>
  ELSE [i \in 1..Len(ts) |-> WideRow(Head(cs), ts[i], ycs, v)]
         \o WideRows(Tail(cs), ts, ycs, v)

\* wide tree cover tables: one or two countries, one or two thresholds for
\* each, one to three year columns of which tc_loss_ha_2025 is outside the
\* year range
WideTables ==
  {WideRows(cs, ts, ycs, v) :
     cs \in {<<"Brazil">>, <<"Peru">>, <<"Brazil", "Peru">>, <<"Peru", "Brazil">>},
     ts \in {<<30>>, <<30, 50>>},
     ycs \in SUBSET Range(TreeYearColumns) \ {{}},
     v \in SheetValues}

\* tables with a country column: one or two names, as written in the source,
\* standard, or with blanks around them
CountryTables ==
  LET names == {"Burma", " Burma ", "Myanmar", "Brazil"}
  IN {<<("country" :> a)>> : a \in names}
       \cup {<<("country" :> a), ("country" :> b)>> : a \in names, b \in names}

\* TreeCoverTransformer().transform(df)
ApplyTransform ==
  /\ applied.fn = "transform"
  /\ ~applied.done
  /\ applied' = [applied EXCEPT !.done = TRUE,
                                !.result = TreeCoverTransform(applied.arg)]

\* cleaner.clean_country_names(df), and again on what it gave
ApplyCleanTwice ==
  /\ applied.fn = "clean"
  /\ ~applied.done
  /\ applied' = [applied EXCEPT
                   !.done = TRUE,
                   !.result = clean_country_names(applied.arg),
                   !.again = clean_country_names(clean_country_names(applied.arg))]

InitFrames ==
  /\ schema = {}
  /\ rows = NoRows
  /\ CallIdle
  /\ FilesIdle
  /\ RunIdle
  /\ ServerIdle
  /\ WhereIdle
  /\ MetaIdle
  /\ StatsIdle
  /\ etl = NoFrames
  /\ ViewsIdle
  /\ \/ \E df \in WideTables :
          applied = [fn |-> "transform", arg |-> df, done |-> FALSE, result |-> << >>,
                     again |-> << >>]
     \/ \E df \in CountryTables :
          applied = [fn |-> "clean", arg |-> df, done |-> FALSE, result |-> << >>,
                     again |-> << >>]

NextFrames ==
  \/ ApplyTransform /\ UNCHANGED <<othersOfClean, etl>>
  \/ ApplyCleanTwice /\ UNCHANGED <<othersOfClean, etl>>

SpecFrames == InitFrames /\ [][NextFrames]_vars

(***************************************************************************)
(* SchemaManager._create_views and ViewManager.create_all_views            *)
(***************************************************************************)
\* the columns of the views SchemaManager._create_views defines, in the
\* order of ViewNames
SchemaViews ==
  <<<<"country", "year", "tree_cover_loss_ha", "primary_forest_loss_ha",
      "primary_percentage">>,
    <<"country", "year", "threshold", "tree_cover_loss_ha", "carbon_emissions_mg_co2e",
      "carbon_per_hectare">>,
    <<"year", "countries_reporting", "total_loss_ha", "avg_loss_ha", "max_loss_ha">>>>

\* the columns ViewManager gives the views of the same names
ManagerViews ==
  <<<<"country", "year", "tree_cover_loss_ha", "primary_forest_loss_ha",
      "primary_percentage", "loss_type">>,
    <<"country", "year", "threshold", "tree_cover_loss_ha", "carbon_emissions_mg_co2e",
      "carbon_net_flux_annual_avg", "carbon_flux_status", "carbon_per_hectare",
      "carbon_role">>,
    <<"year", "countries_reporting", "total_loss_ha", "avg_loss_ha", "max_loss_ha",
      "min_loss_ha", "total_loss_million_ha">>>>

DefinitionsOf(manager) == IF manager = "SchemaManager" THEN SchemaViews ELSE ManagerViews

\* CREATE VIEW IF NOT EXISTS: a view that is there stays as it is
CreateViewIfNotExists(stored, definition) ==
  IF stored = NoView THEN definition ELSE stored

\* DROP VIEW IF EXISTS, then CREATE VIEW
DropAndCreateView(stored, definition) == definition

\* the calls of the two managers the model follows
MaxCreations == 6

\* initialize_database: drop_all_tables when drop_existing, which drops the
\* three views, then create_all_tables with its _create_views
SchemaCreateViews(drop_existing) ==
  /\ Len(managers) < MaxCreations
  /\ LET r == InitializeDatabaseResult(schema, rows, drop_existing, NoFault)
         kept == IF drop_existing THEN [i \in DOMAIN ViewNames |-> NoView] ELSE viewDefs
     IN  /\ schema' = r.schema
         /\ rows' = r.rows
         /\ viewDefs' = [i \in DOMAIN ViewNames |->
                           CreateViewIfNotExists(kept[i], SchemaViews[i])]
  /\ managers' = Append(IF drop_existing THEN << >> ELSE managers, "SchemaManager")

\* ViewManager.create_all_views
create_all_views ==
  /\ Len(managers) < MaxCreations
  /\ viewDefs' = [i \in DOMAIN ViewNames |->
                    DropAndCreateView(viewDefs[i], ManagerViews[i])]
  /\ schema' = schema \cup Range(ViewNames)
  /\ managers' = Append(managers, "ViewManager")
  /\ UNCHANGED rows

\* ViewManager.drop_all_views
drop_all_views ==
  /\ managers # << >>
  /\ viewDefs' = [i \in DOMAIN ViewNames |-> NoView]
  /\ schema' = schema \ Range(ViewNames)
  /\ managers' = << >>
  /\ UNCHANGED rows

othersOfViews ==
  <<callvars, filevars, runvars, mcpvars, wherevars, metavars, statvars, etlvars>>

InitViews ==
  /\ schema = {}
  /\ rows = NoRows
  /\ CallIdle
  /\ FilesIdle
  /\ RunIdle
  /\ ExtIdle

NextViews ==
  \/ /\ \E drop_existing \in BOOLEAN : SchemaCreateViews(drop_existing)
     /\ UNCHANGED othersOfViews
  \/ create_all_views /\ UNCHANGED othersOfViews
  \/ drop_all_views /\ UNCHANGED othersOfViews

SpecViews == InitViews /\ [][NextViews]_vars

(***************************************************************************)
(* C1                                                                      *)
(***************************************************************************)
\* the last operation of ops[1..n] that touches key k of table t, 0 when none does
LastTouch(ops, t, k) ==
  LET S == {i \in 1..Len(ops) :
             ops[i].kind # "malformed" /\ ops[i].table = t /\ ops[i].row.key = k}
  IN IF S = {} THEN 0 ELSE CHOOSE i \in S : \A j \in S : j <= i

\* every operation of ops has its effect in db, on top of the rows of before
AllEffectsIn(db, before, ops) ==
  \A t \in Tables : \A k \in Keys :
    LET i == LastTouch(ops, t, k) IN
      IF i = 0 THEN {r \in db[t] : r.key = k} = {r \in before[t] : r.key = k}
      ELSE IF ops[i].kind = "insert" THEN {r \in db[t] : r.key = k} = {ops[i].row}
      ELSE {r \in db[t] : r.key = k} = {}

TransactionReturned == pc = "done" /\ call.op = "execute_transaction"

\* C1: execute_transaction is all-or-nothing. When no operation raised, the
\* call returns True and the database holds the effect of every operation;
\* when an operation raised, the call raises and the database holds exactly
\* the rows it held before the call, the earlier operations' effects included.
C1_TransactionAllOrNothing ==
  TransactionReturned =>
    /\ ret.failed = 0 =>
         /\ ret.kind = "ok"
         /\ AllEffectsIn(rows, pre.rows, call.ops)
    /\ ret.failed # 0 =>
         /\ ret.kind = "raised"
         /\ rows = pre.rows
         /\ schema = pre.schema

\* a transaction whose second operation fails after the first one changed a table
C1_Witness ==
  /\ TransactionReturned
  /\ ret.failed = 2
  /\ Execute(pre.rows, call.ops[1]) # pre.rows
  /\ rows = pre.rows

(***************************************************************************)
(* C7, C8                                                                  *)
(***************************************************************************)
ExportReturned == pc = "done" /\ call.op = "export_dataframe"

\* C7 as claimed: whenever export_dataframe raises, the target table holds
\* exactly the rows it held before the call.
C7_RaisedExportLeavesTable ==
  (ExportReturned /\ ret.kind = "raised") => rows[call.table] = pre.rows[call.table]

\* C8: after export_dataframe returns in replace mode the table holds exactly
\* the rows of the frame, the returned count is the number of rows of the
\* frame, and the tables, indexes and views of the database are those of
\* before the call.
C8_ReplaceExport ==
  (ExportReturned /\ ret.kind = "ok" /\ call.mode = "replace") =>
    /\ rows[call.table] = Range(call.df)
    /\ ret.value = Len(call.df)
    /\ schema = pre.schema

\* a replace of a table that held rows the frame does not have
C8_Witness ==
  /\ ExportReturned /\ ret.kind = "ok" /\ call.mode = "replace"
  /\ pre.rows[call.table] \ Range(call.df) # {}
  /\ Len(call.df) = MaxRows
  /\ schema = FullSchema

(***************************************************************************)
(* C9                                                                      *)
(***************************************************************************)
ExportAllRaisedAt(i) ==
  /\ pc = "done" /\ call.op = "export_all_tables"
  /\ ret.kind = "raised" /\ ret.table = i

\* C9 as claimed: when the export of table i fails, the tables before it
\* hold the rows of their frames, and table i and the tables after it hold
\* the rows they held before the call.
C9_FailedExportAllState ==
  \A i \in 1..Len(FactTables) :
    ExportAllRaisedAt(i) =>
      /\ \A j \in 1..(i - 1) : rows[FactTables[j]] = Range(call.dfs[j])
      /\ \A j \in i..Len(FactTables) : rows[FactTables[j]] = pre.rows[FactTables[j]]

(***************************************************************************)
(* C10                                                                     *)
(***************************************************************************)
\* C10 as claimed: whenever create_all_tables raises, the schema is the one
\* of before the call.
C10_RaisedCreateLeavesSchema ==
  (pc = "done" /\ call.op = "create_all_tables" /\ ret.kind = "raised") =>
    schema = pre.schema

(***************************************************************************)
(* C2 .. C6                                                                *)
(***************************************************************************)
IsSuccessOf(cp, name) == cp.step = name /\ cp.status = "success"

\* C2: the steps of a run start in the order of StepOrder, none skipped or
\* repeated; a step has started only if every step before it has its success
\* checkpoint; and no step has started after a failed checkpoint.
C2_StepsInOrder ==
  /\ Len(started) <= Len(StepOrder)
  /\ \A i \in 1..Len(started) : started[i] = StepOrder[i]
  /\ Len(session.checkpoints) <= Len(started)
  /\ \A i \in 1..(Len(started) - 1) :
       /\ i <= Len(session.checkpoints)
       /\ IsSuccessOf(session.checkpoints[i], StepOrder[i])

\* a run that went through every step
C2_Witness == started = StepOrder /\ outcome = "stats" /\ rpc = "returned"

LastCheckpoint == session.checkpoints[Len(session.checkpoints)]

StepFailed ==
  /\ session.checkpoints # << >>
  /\ LastCheckpoint.status = "failed"
  /\ LastCheckpoint.step = started[Len(started)]

\* C3 as claimed: once the error is in stats the failed checkpoint of the
\* step is recorded and the rollback attempted; the exception the caller of
\* run gets is the one the step raised; the session is not completed.
C3_ErrorAfterRollback ==
  /\ stats.error # "" => (StepFailed /\ rollback # "none")
  /\ rpc = "raised" =>
       /\ StepFailed
       /\ exc = LastCheckpoint.error
       /\ session.status # "completed"

\* C4 as claimed: when an exception leaves a transaction block the failed
\* checkpoint with the error text is appended and persisted, the rollback
\* has been attempted, and the exception is the one the body raised.
C4_BlockExceptionPropagates ==
  rpc = "propagate" =>
    /\ StepFailed
    /\ sessionFile = session
    /\ rollback # "none"
    /\ exc = LastCheckpoint.error

\* C5: in a validate_only run no step after validate_data starts and the
\* database keeps the schema and rows it had when the run began; when the run
\* returns, the session is completed and the validation report is the result.
C5_ValidateOnly ==
  (nruns > 0 /\ run.validate_only) =>
    /\ Len(started) <= 2
    /\ schema = runPre.schema /\ rows = runPre.rows
    /\ rpc = "returned" =>
         (session.status = "completed" /\ outcome = "validation_report")

\* a validate_only run that returned, on a database that has rows
C5_Witness ==
  /\ run.validate_only /\ rpc = "returned"
  /\ started = <<"load_data", "validate_data">>
  /\ dbFile.exists /\ \E t \in Tables : rows[t] # {}

\* C6 as claimed: after every run the backups directory holds at most Keep
\* files and they are the most recently created ones: every file pruned was
\* created before every file kept.
C6_KeepsMostRecent ==
  /\ Cardinality(backups) <= Keep
  /\ \A b \in backups : \A p \in pruned : p < b.born

(***************************************************************************)
(* C11 .. C15                                                              *)
(***************************************************************************)
Invoked == tool.name # "none"

TextKinds == {"unknown_tool", "error", "rejected", "no_data", "answer"}

\* C11: call_tool answers every name and argument map with text blocks: a
\* name that is not advertised gets the text "Unknown tool", a handler that
\* raised gets an error text, and each advertised name is handled by its own
\* handler.
C11_CallToolAlwaysAnswers ==
  Invoked =>
    /\ response.kind \in TextKinds
    /\ tool.name \notin Range(ToolNames) =>
         (response.kind = "unknown_tool" /\ response.text = "Unknown tool")
    /\ tool.name \in Range(ToolNames) =>
         /\ response.handler = tool.name
         /\ response.kind # "unknown_tool"
         /\ ~(PlanOf(tool.name, tool.arguments).required \subseteq tool.arguments.given)
              => (response.kind = "error" /\ response.text = "KeyError")

\* a handler that subscripts a key the caller did not send
C11_Witness ==
  /\ tool.name = "query_carbon_data"
  /\ "country" \notin tool.arguments.given
  /\ response.kind = "error"

C13_SqlTextIsServerText ==
  \A i \in 1..Len(executed) :
    \A j \in 1..Len(executed[i].sql) : executed[i].sql[j].origin = "server"

\* C14 as claimed: the no-data response is given only when the query ran
\* and matched no row, never when a query failed.
C14_NoDataOnlyWhenQueryRan ==
  response.kind = "no_data" => \A i \in 1..Len(executed) : ~executed[i].failed

\* C15: once a handler has asked for enrichment, the response is the answer
\* about the rows its query found, followed by the enrichment text only when
\* the endpoint gave one, followed by the source line; an error response is
\* never the result of the enrichment call.
C15_EnrichmentOnlyAppends ==
  /\ (Invoked /\ climate # "not_called") =>
       /\ response.kind = "answer"
       /\ response.results # {}
       /\ response.results = executed[Len(executed)].results
       /\ response.parts = IF climate = "ok" THEN <<"numeric", "climate", "source">>
                           ELSE <<"numeric", "source">>
  /\ response.kind = "error" => climate = "not_called"

\* an answer given although the request to the endpoint failed in transport
C15_Witness ==
  /\ climate = "transport"
  /\ response.kind = "answer"
  /\ response.results # {}

(***************************************************************************)
(* C16                                                                     *)
(***************************************************************************)
HasForeignCharacter(column) ==
  \E i \in 1..Len(column) : column[i] \notin Letters \cup Digits \cup {"_"}

HasNoLetterOrDigit(column) ==
  \A i \in 1..Len(column) : column[i] \notin Letters \cup Digits

RECURSIVE ValuesInOrder(_, _)
ValuesInOrder(conds, i) ==
  IF i > Len(conds) THEN << >>
  ELSE (IF conds[i].value.kind = "none" THEN << >> ELSE conds[i].value.items)
         \o ValuesInOrder(conds, i + 1)

RECURSIVE PlaceholdersIn(_, _)
PlaceholdersIn(parts, i) ==
  IF i > Len(parts) THEN 0 ELSE parts[i].placeholders + PlaceholdersIn(parts, i + 1)

\* what the claim says of a call that returned: one predicate per entry in
\* map order, of the form the value asks for, the values as parameters in
\* order, as many placeholders as parameters, the empty clause for the empty map
ReturnedAsClaimed ==
  /\ built.state = "returned"
  /\ Len(built.parts) = Len(conditions)
  /\ \A i \in 1..Len(conditions) :
       /\ built.parts[i].column = conditions[i].column
       /\ built.parts[i].form =
            CASE conditions[i].value.kind = "none" -> "IS NULL"
              [] conditions[i].value.kind = "list" -> "IN"
              [] OTHER -> "="
       /\ conditions[i].value.kind = "list" =>
            built.parts[i].placeholders = Len(conditions[i].value.items)
  /\ built.params = ValuesInOrder(conditions, 1)
  /\ PlaceholdersIn(built.parts, 1) = Len(built.params)
  /\ built.prefix = IF conditions = << >> THEN "" ELSE "WHERE"

\* C16 as claimed: build_where_clause raises exactly when some column name
\* has a character other than a letter, a digit or an underscore, and
\* otherwise returns what ReturnedAsClaimed says.
C16_RaisesOnForeignCharacterOnly ==
  built.state # "none" =>
    IF \E i \in 1..Len(conditions) : HasForeignCharacter(conditions[i].column)
    THEN built.state = "raised"
    ELSE ReturnedAsClaimed

\* What holds of build_where_clause instead: it raises exactly when some column name has
\* a character other than a letter, a digit or an underscore, or has no
\* letter or digit at all (the empty name, a name of underscores only), and
\* otherwise returns what ReturnedAsClaimed says.
C16_WhereClause ==
  built.state # "none" =>
    IF \E i \in 1..Len(conditions) :
         HasForeignCharacter(conditions[i].column)
           \/ HasNoLetterOrDigit(conditions[i].column)
    THEN built.state = "raised"
    ELSE ReturnedAsClaimed

\* a clause of two predicates, one of them an IN over two values
C16_Witness ==
  /\ built.state = "returned"
  /\ Len(built.parts) = MaxConds
  /\ \E i \in 1..Len(built.parts) :
       built.parts[i].form = "IN" /\ built.parts[i].placeholders = 2
  /\ \E i \in 1..Len(built.parts) : built.parts[i].form = "IS NULL"

\* the loads of the metadata documents made so far, over all objects
RECURSIVE LoadsOf(_)
LoadsOf(objs) == IF objs = << >> THEN 0 ELSE objs[Len(objs)].loads + LoadsOf(SubSeq(objs, 1, Len(objs) - 1))

\* C17: however many times and from however many threads MetadataManager is
\* constructed, every construction yields the same instance, the metadata
\* documents are loaded exactly once, and no caller obtains an instance
\* whose semantic or runtime metadata is not loaded
C17_OneLoadedInstance ==
  /\ Len(attrs) <= 1
  /\ LoadsOf(attrs) <= 1
  /\ \A h \in yielded :
       /\ h.object = 1
       /\ h.semantic = "loaded"
       /\ h.runtime = "loaded"
  /\ yielded # {} => LoadsOf(attrs) = 1

\* the importing thread and both other threads have each constructed the
\* manager as often as they can, the other threads after the import
C17_Witness ==
  /\ \A t \in Threads : thr[t].pc = "returned" /\ thr[t].n = MaxConstructions
  /\ Cardinality(yielded) = 1
  /\ LoadsOf(attrs) = 1

\* the map update_runtime_stats merges into map f of the metadata
GivenMap(upd, f) == IF f \in upd.given THEN upd[f] ELSE NoMap

\* C18: update_runtime_stats overwrites exactly the keys present in the
\* supplied row_counts, validation_status and data_quality maps and leaves
\* every other key of those maps unchanged; it changes last_pipeline_run and
\* pipeline_version if and only if the update map signals a pipeline run
C18_UpdateTouchesGivenKeysOnly ==
  updating.calls > 0 =>
    /\ \A f \in {"row_counts", "validation_status", "data_quality"} :
         LET new == GivenMap(updating.update, f)
         IN /\ DOMAIN updating.after[f] = DOMAIN updating.before[f] \cup DOMAIN new
            /\ \A k \in DOMAIN new : updating.after[f][k] = new[k]
            /\ \A k \in DOMAIN updating.before[f] \ DOMAIN new :
                 updating.after[f][k] = updating.before[f][k]
    /\ IF "pipeline_run" \in updating.update.given
       THEN /\ updating.after.last_pipeline_run = updating.now
            /\ updating.after.last_pipeline_run # updating.before.last_pipeline_run
            /\ updating.after.pipeline_version =
                 IF "version" \in updating.update.given THEN updating.update.version
                 ELSE "1.0.0"
       ELSE /\ updating.after.last_pipeline_run = updating.before.last_pipeline_run
            /\ updating.after.pipeline_version = updating.before.pipeline_version

\* an update that names one key of row_counts the metadata has and signals
\* no pipeline run, on metadata an earlier run left: that key is overwritten,
\* the two other tables keep their counts
C18_Witness ==
  /\ updating.calls > 0
  /\ updating.update.given = {"row_counts", "version"}
  /\ DOMAIN updating.update.row_counts = {"fact_carbon"}
  /\ updating.before.row_counts["fact_carbon"] = 2
  /\ updating.after.row_counts["fact_carbon"] = 3
  /\ updating.after.row_counts["fact_primary_forest"] = 2
  /\ updating.after.pipeline_version = "0.9.0"

\* C19: runtime metadata, in memory and persisted, is changed by nothing
\* except the update call the run makes after its last step: a validate-only
\* run and a run in which a step fails leave it exactly as it was
C19_OnlyPostRunUpdateChangesRuntime ==
  [][runtime' # runtime => rpc = "finish" /\ rpc' = "returned"]_vars

\* C20: after every successful pipeline run no row of fact_tree_cover_loss
\* has a negative tree_cover_loss_ha or extent_2000_ha and no row of
\* fact_carbon has a negative carbon_emissions_mg_co2e, whatever the sheets
\* hold
C20_NoNegativeAfterRun ==
  etl.stage = "exported" =>
    /\ \A i \in 1..Len(etl.tree) :
         /\ ~IsNegative(etl.tree[i].tree_cover_loss_ha)
         /\ ~IsNegative(etl.tree[i].extent_2000_ha)
    /\ \A i \in 1..Len(etl.carbon) :
         ~IsNegative(etl.carbon[i].carbon_emissions_mg_co2e)

\* What holds instead: of the three columns only extent_2000_ha, a column
\* of the sheet, is never negative after a run
ExtentNeverNegative ==
  etl.stage = "exported" =>
    \A i \in 1..Len(etl.tree) : ~IsNegative(etl.tree[i].extent_2000_ha)

\* C21: after every successful pipeline run every row of fact_carbon has
\* threshold 30, 50 or 75 and every row of fact_primary_forest has
\* threshold exactly 30, whatever thresholds the sheets contain
C21_ThresholdsAfterRun ==
  etl.stage = "exported" =>
    /\ \A i \in DOMAIN etl.carbon : etl.carbon[i].threshold \in {30, 50, 75}
    /\ \A i \in DOMAIN etl.primary : etl.primary[i].threshold = 30

\* a run ended well on a carbon sheet with a row of threshold 25 and a row
\* of threshold 50 and a primary forest sheet of threshold 75: fact_carbon
\* holds the row of threshold 50 only, fact_primary_forest rows of 30
C21_Witness ==
  /\ etl.stage = "exported"
  /\ Len(etl.carbon) = 1
  /\ etl.carbon[1].threshold = 50
  /\ Len(etl.primary) = 1
  /\ etl.primary[1].threshold = 30
  /\ etl.primary[1].year = 2002

\* the integer the four digits in the name of a year column spell
EmbeddedYear(c) ==
  LET d == YearDigits[c]
  IN ((d[1] * 10 + d[2]) * 10 + d[3]) * 10 + d[4]

\* the year columns of a wide table
YearColumnsIn(df) == {c \in Range(TreeYearColumns) : c \in DOMAIN df[1]}

\* the countries of a wide table
CountriesIn(df) == {df[i]["country"] : i \in DOMAIN df}

\* the rows of the result that come from row r of the table and column c
RowsFrom(result, r, c) ==
  {k \in DOMAIN result :
     /\ result[k].country = r["country"]
     /\ result[k].threshold = r[ThresholdColumn]
     /\ result[k].year = EmbeddedYear(c)
     /\ result[k].tree_cover_loss_ha = r[c]}

\* no (country, year, threshold) twice in the result
NoKeyTwice(result) ==
  \A i, j \in DOMAIN result :
    (/\ result[i].country = result[j].country
     /\ result[i].year = result[j].year
     /\ result[i].threshold = result[j].threshold) => i = j

\* C22 as claimed: for every wide tree-cover table with N countries and M
\* year columns, TreeCoverTransformer.transform returns exactly N x M rows,
\* each year is the integer embedded in the originating column name, and no
\* (country, year, threshold) occurs more than once
C22_RowsAreCountriesTimesYearColumns ==
  (applied.fn = "transform" /\ applied.done) =>
    /\ Len(applied.result)
         = Cardinality(CountriesIn(applied.arg)) * Cardinality(YearColumnsIn(applied.arg))
    /\ \A k \in DOMAIN applied.result :
         \E c \in YearColumnsIn(applied.arg) : applied.result[k].year = EmbeddedYear(c)
    /\ NoKeyTwice(applied.result)

\* C22 amended: for every wide tree-cover table with R rows, no two of one
\* country and threshold, and M year columns of which M' name a year of the
\* tree-cover year range, transform returns exactly R x M' rows: one for
\* each row and each such column, with the year embedded in the column's
\* name and the value of that cell; no (country, year, threshold) occurs
\* more than once
C22_RowsAreRowsTimesYearColumnsInRange ==
  (applied.fn = "transform" /\ applied.done) =>
    LET inRange == {c \in YearColumnsIn(applied.arg) :
                      EmbeddedYear(c) >= 2001 /\ EmbeddedYear(c) <= 2024}
    IN /\ Len(applied.result) = Len(applied.arg) * Cardinality(inRange)
       /\ \A i \in DOMAIN applied.arg : \A c \in inRange :
            Cardinality(RowsFrom(applied.result, applied.arg[i], c)) = 1
       /\ NoKeyTwice(applied.result)

\* a table of two countries at one threshold with the year columns of 2001
\* and 2002 gave four rows
C22_Witness ==
  /\ applied.fn = "transform"
  /\ applied.done
  /\ Len(applied.arg) = 2
  /\ YearColumnsIn(applied.arg) = {"tc_loss_ha_2001", "tc_loss_ha_2002"}
  /\ Len(applied.result) = 4
  /\ applied.result[1].year = 2001
  /\ applied.result[4].year = 2002

\* C23: clean_country_names is idempotent: applying it to its own output
\* changes no country value
C23_CleanIsIdempotent ==
  (applied.fn = "clean" /\ applied.done) => applied.again = applied.result

\* C24: in every database state the pipeline can produce, every non-null
\* primary_percentage of v_primary_forest_percentage lies between 0 and 100
\* inclusive (the model holds the percentage in hundredths)
C24_PrimaryPercentageInRange ==
  etl.stage = "exported" =>
    \A r \in v_primary_forest_percentage(etl.tree, etl.primary) :
      ~r.primary_percentage.null =>
        r.primary_percentage.v >= 0 /\ r.primary_percentage.v <= 10000

\* the step of the most recent checkpoint with status success ("" if none)
LastSuccessStep ==
  LET ix == {i \in DOMAIN session.checkpoints : session.checkpoints[i].status = "success"}
  IN  IF ix = {} THEN ""
      ELSE session.checkpoints[CHOOSE i \in ix : \A j \in ix : j <= i].step

\* C25: when a step has failed in a session, the rollback is chosen from the
\* checkpoints alone: without a success checkpoint the full rollback runs
\* (the database file, if there is one, copied to the backup) and no hook;
\* otherwise the hook named after the step of the most recent success
\* checkpoint runs, and nothing runs if that step has no hook
C25_RollbackChosenFromCheckpoints ==
  rpc = "propagate" =>
    /\ LastSuccessStep = "" =>
         /\ rollback = "full"
         /\ (dbFile.exists /\ exc # "error in rollback") => fullBackup
    /\ LastSuccessStep \in {"load_data", "clean_data", "transform_data", "export_data"} =>
         rollback = LastSuccessStep
    /\ LastSuccessStep \in {"validate_data", "create_dimensions", "validate_export"} =>
         rollback = "nothing"

\* create_dimensions failed after export_data succeeded: the export hook ran
C25_Witness ==
  /\ rpc = "propagate"
  /\ LastSuccessStep = "export_data"
  /\ rollback = "export_data"
  /\ session.checkpoints[Len(session.checkpoints)].status = "failed"

\* the position of a step in the run
StepIndex(s) == CHOOSE k \in DOMAIN StepOrder : StepOrder[k] = s

\* a step of the run in which control leaves a transaction block
LeavesTransaction == rpc \in {"body", "leaving"} /\ rpc' \notin {"body", "leaving"}

\* C26: in a session, every exit of a transaction block, normal or by
\* exception, appends exactly one checkpoint of that step with status
\* success or failed, behind the checkpoints of the earlier steps, and the
\* session file then holds exactly the checkpoints held in memory
C26_ExitAppendsOneCheckpoint ==
  [][(LeavesTransaction /\ session.status # "none") =>
       /\ Len(session'.checkpoints) = Len(session.checkpoints) + 1
       /\ SubSeq(session'.checkpoints, 1, Len(session.checkpoints)) = session.checkpoints
       /\ session'.checkpoints[Len(session'.checkpoints)].step = StepOrder[step]
       /\ session'.checkpoints[Len(session'.checkpoints)].status \in {"success", "failed"}
       /\ \A i \in DOMAIN session.checkpoints :
            StepIndex(session.checkpoints[i].step) < step
       /\ sessionFile'.checkpoints = session'.checkpoints]_vars

\* export_data raised after four steps succeeded: five checkpoints, the last
\* one failed, the file equal to the session
C26_Witness ==
  /\ rpc = "failed"
  /\ Len(session.checkpoints) = 5
  /\ session.checkpoints[5] = [step |-> "export_data", status |-> "failed",
                               error |-> ErrorOf(5)]
  /\ \A i \in 1..4 : session.checkpoints[i].status = "success"
  /\ sessionFile = session

\* C28: once complete_session has marked a session completed, no checkpoint
\* is appended to it and its session file is not written again, in full
\* runs and in validate-only runs alike
C28_CompletedSessionIsFinal ==
  [][(session.status = "completed" /\ session'.status = "completed") =>
       /\ session'.checkpoints = session.checkpoints
       /\ sessionFile' = sessionFile]_vars

\* C27: once both managers have created their views on one database, in
\* either order, each view of the three names they share is stored with the
\* definition of the manager that ran last
C27_LastManagerDefines ==
  ({"SchemaManager", "ViewManager"} \subseteq Range(managers)) =>
    \A i \in DOMAIN ViewNames :
      viewDefs[i] = DefinitionsOf(managers[Len(managers)])[i]

\* C29: a tool called with a metric its parameter schema lists never answers
\* that the metric is unknown
C29_AdvertisedMetricAccepted ==
  (/\ tool # NoTool
   /\ "metric" \in tool.arguments.given
   /\ tool.arguments.metric \in AdvertisedMetrics(tool.name)) =>
     ~(response.kind = "rejected" /\ response.text = "Unknown metric")

\* C30: when a call of a tool has returned, every connection its calls of
\* execute_query opened is closed, whether the query failed or not
C30_NoConnectionLeftOpen == connections = 0

====
